---- MODULE Spec2Model ----
(***************************************************************************)
(* The live signal-tracking worker (worker.py) with the quote client       *)
(* (groww_async.py), the session clock (time_utils.py) and the signal      *)
(* source (signals_api.py).                                                *)
(*                                                                         *)
(* Conventions.                                                            *)
(*  - Times of day are minutes since midnight, exchange-local (IST).       *)
(*  - Prices are integers in hundredths (paise): 100.00 is 10000.  Python  *)
(*    computes on binary floats; the model computes the same expressions   *)
(*    on exact decimals, round(x, 2) being rounding to the nearest         *)
(*    hundredth (ties to even).                                            *)
(*  - A Python value whose type the code tests (None, list, tuple) is a    *)
(*    record with a field kind.                                            *)
(*  - A candle is the provider's array [timestamp, open, high, low,        *)
(*    close, volume].                                                      *)
(***************************************************************************)
EXTENDS Integers, Sequences, FiniteSets, TLC

VARIABLES
    now,              \* wall clock, minutes since midnight (datetime.now(IST))
    day,              \* calendar day number
    restarts,         \* number of process restarts so far
    live_alerted,     \* worker.py:70
    live_trades,      \* worker.py:71, symbol -> [target, sl]
    day_highs,        \* worker.py:72, symbol -> number
    stats,            \* worker.py:58
    symbol_to_isin,   \* worker.py:75, the symbols whose ISIN is cached
    symbol_to_qty,    \* worker.py:76, symbol -> quantity
    cold_start_done,  \* worker.py:66
    cold_sent,        \* the messages the cold-start thread handed to the notifier
    cold_pc,          \* the cold-start thread: "idle", "running", "done" or "failed"
    loop_pc,          \* the live loop: "run", "error_sleep" after an iteration that raised, "stopped"
    symbols,          \* the cycle run at this instant: its list of symbols (worker.py:344)
    candles,          \* ... the list asyncio.gather returned for them (worker.py:346)
    fetched,          \* ... the symbols for which its quote fetch had a latest candle
    applied,          \* ... symbol -> the candle that passed the guard of worker.py:349
    emitted,          \* ... per symbol, the trade messages it handed to safe_send_message
    events,           \* per symbol, the kind and day of every trade message sent so far, in order
    orders,           \* per symbol, the order requests made by trigger_gtt_trade so far, in order
    notices,          \* per symbol, the messages about its order sent so far, in order
    source,           \* what the loop's last call of fetch_today_signals met: "none" before the first call
    feed,             \* scenario runs: the scenario's name and the prices still to be fed
    fan,              \* the fan-out in progress: who started it and the state of its tasks
    runner,           \* test_runner.py: the call of run_test_for_date in progress
    retrier,          \* get-live-data.py: the call of fetch_with_retries in progress
    broadcaster,      \* get-live-data.py:142, the Broadcaster and the coroutines using it
    app,              \* app.py: the run of main
    trigger           \* trade_trigger.py: the call of trigger_gtt_trade in progress

vars == <<now, day, restarts, live_alerted, live_trades, day_highs, stats,
          symbol_to_isin, symbol_to_qty, cold_start_done, cold_sent, cold_pc, loop_pc,
          symbols, candles, fetched, applied, emitted, events, orders, notices, source,
          feed, fan, runner, retrier, broadcaster, app, trigger>>

\* The programs beside the worker; the worker's actions leave them alone
tools == <<runner, retrier, broadcaster, app, trigger>>

\* The worker's process; the other programs' actions leave it alone
worker_state ==
    <<now, day, restarts, live_alerted, live_trades, day_highs, stats,
      symbol_to_isin, symbol_to_qty, cold_start_done, cold_sent, cold_pc, loop_pc,
      symbols, candles, fetched, applied, emitted, events, orders, notices, source,
      feed, fan>>

----------------------------------------------------------------------------
(* Bounds of the model *)

MaxDay == 2
MaxRestarts == 1
TsEpoch == 1000000

\* The connection limit of the session and the permits of the semaphore:
\* CONCURRENCY, 100 at worker.py:22 and 12 at test_runner.py:13, scaled down
\* so that a fan-out can ask for more requests than the limit admits
CONCURRENCY == 2

(* Program constants, minutes since midnight *)

MARKET_OPEN == 555
MARKET_CLOSE == 930
LIVE_BUY_START == 565
LIVE_BUY_END == 700
DAY_HIGH_END == 600
RESET_TIME == 555

(* Program constants, counts *)

MAX_RETRIES == 3

----------------------------------------------------------------------------
(* Python values *)

None == [kind |-> "none"]

PyList(s) == [kind |-> "list", items |-> s]

PyTuple(s) == [kind |-> "tuple", items |-> s]

\* A non-empty JSON object
PyDict == [kind |-> "dict", items |-> <<"k">>]

\* An exception instance, as asyncio.gather(return_exceptions=True) returns it
PyException == [kind |-> "exception", items |-> <<"KeyError">>]

Truthy(v) == v.kind # "none" /\ Len(v.items) > 0

Max2(a, b) == IF a >= b THEN a ELSE b

RoundDiv(n, d) ==
    LET q == n \div d
        r == n % d
    IN  IF 2 * r < d THEN q
        ELSE IF 2 * r > d THEN q + 1
        ELSE IF q % 2 = 0 THEN q ELSE q + 1

----------------------------------------------------------------------------
(* The environment: instruments, signals, candles *)

Order == <<"A", "B", "C", "Z">>

AllSymbols == {"A", "B", "C", "Z"}

companies == {"A", "B", "C"}

SignalOf(s) ==
    [symbol |-> s, entry_price |-> 10000, target_price |-> 10600,
     stoploss_price |-> 9900, qty |-> IF s = "A" THEN 5 ELSE 0]

SignalSets == {{}, {"A"}, {"B"}, {"A", "B"}, {"A", "Z"}}

ZeroCandle == <<0, 0, 0, 0, 0, 0>>
LowCandle == <<0, 9800, 9900, 9700, 9800, 1>>
MidCandle == <<0, 10100, 10100, 10100, 10100, 1>>
EpochCandle == <<TsEpoch, 9800, 9900, 9700, 9800, 1>>

Candles == {ZeroCandle, LowCandle, MidCandle, EpochCandle}

TimePoints == {554, 555, 599, 600, 700, 930, 931}

----------------------------------------------------------------------------
(* Session clock: time_utils.is_market_time *)

\* The day of the week of day d of a run, 0 for Monday to 6 for Sunday: the
\* runs of the model start on a Friday.  time_utils.py:12 takes .time() of
\* datetime.now(IST), which drops the date and with it the day of the week.
Weekday(d) == (d + 3) % 7

IsWeekend(d) == Weekday(d) >= 5

\* Mutant: the session is taken to be open at every time
is_market_time_Always(t) == TRUE

\* time_utils.py:9-14
is_market_time(t) == MARKET_OPEN <= t /\ t <= MARKET_CLOSE

----------------------------------------------------------------------------
(* Quote client: groww_async *)

\* A response of the provider: resp.ok is FALSE when the request raised
\* (network error, timeout, bad JSON); resp.candles is the "candles" member
\* of the reply, an array of candles or, out of form, a JSON object.
Responses ==
    {[ok |-> FALSE, candles |-> PyList(<<>>)], [ok |-> TRUE, candles |-> PyList(<<>>)]}
    \cup {[ok |-> TRUE, candles |-> PyList(<<c>>)] : c \in Candles}
    \cup {[ok |-> TRUE, candles |-> PyList(<<LowCandle, MidCandle>>)]}
    \cup {[ok |-> TRUE, candles |-> PyDict]}

\* Whether a gathered result carries a latest candle: the result is the pair
\* (symbol, latest) of fetch_latest_candle, or the latest candle itself
HasLatest(result) ==
    IF result.kind = "tuple" THEN result.items[2].kind # "none"
    ELSE result.kind = "list" /\ Len(result.items) > 0

\* groww_async.py:38-74: `data.get("candles", []) or []`, and [] when the
\* request raised
fetch_candles(resp) ==
    IF resp.ok /\ Truthy(resp.candles) THEN resp.candles ELSE PyList(<<>>)

fetch_last_n_minutes_candles(symbol, resp) == <<symbol, fetch_candles(resp)>>

\* groww_async.py:125-142; candles[-1] of an object raises KeyError
fetch_latest_candle(symbol, resp) ==
    LET cs == fetch_last_n_minutes_candles(symbol, resp)[2]
    IN  IF ~Truthy(cs) THEN PyTuple(<<symbol, None>>)
        ELSE IF cs.kind = "list"
             THEN PyTuple(<<symbol, PyList(cs.items[Len(cs.items)])>>)
        ELSE PyException

\* groww_async.py:147-162
fetch_candles_for_range(symbol, resp) == PyTuple(<<symbol, fetch_candles(resp)>>)

\* Mutant: the results of the awaitables that brought no data are left out
gather_SkipsEmpty(syms, res) ==
    LET all == [i \in 1..Len(syms) |-> res[syms[i]]]
    IN  SelectSeq(all, LAMBDA r : r.kind = "tuple" /\ Truthy(r.items[2]))

\* asyncio.gather(*tasks, return_exceptions=True) over one awaitable per
\* symbol of syms (worker.py:345-346, test_runner.py:50-51): the list of the
\* awaitables' outcomes, in the order of the awaitables
RECURSIVE gather(_, _)
gather(syms, res) ==
    IF syms = <<>> THEN <<>> ELSE <<res[Head(syms)]>> \o gather(Tail(syms), res)

----------------------------------------------------------------------------
(* Signal source and the cycle's symbol list: worker.py:336-344 *)

\* What a call of fetch_today_signals meets: "failed", the request raised
\* (no connection, timeout, error status, body that is no JSON);
\* "not_found", a JSON object whose "found" is false or missing; "found", an
\* object with "found" true; "malformed", JSON that is no object.  data is
\* the "data" member of the reply: the symbols of its signal records.
Reply(kind, data) == [kind |-> kind, data |-> data]

\* Mutant: the request is made outside try/except
fetch_today_signals_NoCatch(reply) ==
    [raised |-> reply.kind \in {"failed", "malformed"},
     signals |-> IF reply.kind = "found" THEN reply.data ELSE {}]

\* signals_api.py:14-43: the list returned, or the exception raised by
\* data.get of line 39 on a reply that is no object
fetch_today_signals(reply) ==
    [raised |-> reply.kind = "malformed",
     signals |-> IF reply.kind = "found" THEN reply.data ELSE {}]

symbol_signal_map(sigs) == {s \in sigs : s \in companies}

SymbolList(sigs) == SelectSeq(Order, LAMBDA s : s \in symbol_signal_map(sigs))

UpdateQty(qtys, sigs) ==
    [s \in DOMAIN qtys \cup {x \in symbol_signal_map(sigs) : SignalOf(x).qty # 0} |->
        IF s \in symbol_signal_map(sigs) /\ SignalOf(s).qty # 0
        THEN SignalOf(s).qty ELSE qtys[s]]

----------------------------------------------------------------------------
(* The per-symbol body of the cycle: worker.py:348-427 *)

\* worker.py:349, negated
CandleUsable(candle) ==
    Truthy(candle) /\ candle.kind = "list" /\ Len(candle.items) >= 5

\* worker.py:352
Ltp(c) == c[5]

\* worker.py:353, max(candle[:4])
High(c) == Max2(Max2(c[1], c[2]), Max2(c[3], c[4]))

\* Mutant: the end of the window is not checked
InLiveBuyWindow_NoEnd(t) == LIVE_BUY_START <= t

\* worker.py:362
InLiveBuyWindow(t) == LIVE_BUY_START <= t /\ t <= LIVE_BUY_END

\* Mutant: a symbol already alerted may trigger again
BuyCondition_NoAlertedCheck(st, sym, ltp, t) ==
    /\ InLiveBuyWindow(t)
    /\ sym \in DOMAIN st.day_highs
    /\ ltp * 100 <= st.day_highs[sym] * 103

\* Mutant: the trigger is barred by an open trade, not by the alert
BuyCondition_ChecksOpenTrade(st, sym, ltp, t) ==
    /\ InLiveBuyWindow(t)
    /\ sym \notin DOMAIN st.live_trades
    /\ sym \in DOMAIN st.day_highs
    /\ ltp * 100 <= st.day_highs[sym] * 103

\* worker.py:361-366
BuyCondition(st, sym, ltp, t) ==
    /\ InLiveBuyWindow(t)
    /\ sym \notin st.live_alerted
    /\ sym \in DOMAIN st.day_highs
    /\ ltp * 100 <= st.day_highs[sym] * 103

EntryOf(dh) == RoundDiv(dh * 103, 100)
TargetOf(entry) == RoundDiv(entry * 103, 100)
SlOf(entry) == RoundDiv(entry * 99, 100)

\* A trade message: its kind, the price that caused it and the levels of
\* the trade it is about
Event(type, ltp, target, sl) ==
    [type |-> type, ltp |-> ltp, target |-> target, sl |-> sl]

\* Mutant: safe_send_message has no try/except, a failure of the notifier
\* raises out of it
safe_send_message_NoCatch(send_ok) == IF send_ok THEN "sent" ELSE "raised"

\* worker.py:90-98: what becomes of a message handed to safe_send_message,
\* given whether the notifier takes it: a failure of send_message is caught
\* and logged
safe_send_message(send_ok) == IF send_ok THEN "sent" ELSE "logged"

\* safe_send_message for a trade message (worker.py:378, 422, 426)
Send(st, sym, e, d, io) ==
    [st EXCEPT !.emitted[sym] =
                   Append(@, [type |-> e.type, ltp |-> e.ltp, target |-> e.target,
                              sl |-> e.sl, delivered |-> io.send_ok]),
               !.events[sym] = Append(@, [type |-> e.type, day |-> d]),
               !.raised = @ \/ safe_send_message(io.send_ok) = "raised"]

\* safe_send_message for a message about the order of a symbol
\* (worker.py:131, 141, 146, 415)
Notify(st, sym, kind, io) ==
    [st EXCEPT !.notices[sym] = Append(@, [kind |-> kind, delivered |-> io.send_ok]),
               !.raised = @ \/ safe_send_message(io.send_ok) = "raised"]

\* worker.py:128-149: the message trigger_gtt_trade sends for the outcome of
\* its request: the order placed, an error reply, or an exception (no
\* connection, timeout, reply that is no JSON)
GttNotice(outcome) ==
    CASE outcome = "placed" -> "GTT_PLACED"
      [] outcome = "rejected" -> "GTT_FAILED"
      [] outcome = "raised" -> "GTT_API_ERROR"

\* Mutant: a request that did not place the order is made once more
trigger_gtt_trade_Retries(st, sym, qty, d, io) ==
    LET once == [st EXCEPT !.orders[sym] = Append(@, [qty |-> qty, day |-> d])]
        again == IF io.gtt = "placed" THEN once
                 ELSE [once EXCEPT !.orders[sym] = Append(@, [qty |-> qty, day |-> d])]
    IN  Notify(again, sym, GttNotice(io.gtt), io)

\* Mutant: trigger_gtt_trade has no try/except, an exception of the request
\* raises out of it
trigger_gtt_trade_NoCatch(st, sym, qty, d, io) ==
    LET once == [st EXCEPT !.orders[sym] = Append(@, [qty |-> qty, day |-> d])]
    IN  IF io.gtt = "raised" THEN [once EXCEPT !.raised = TRUE]
        ELSE Notify(once, sym, GttNotice(io.gtt), io)

\* worker.py:112-149: one request to the order service, whose outcome is
\* reported and not acted upon
trigger_gtt_trade(st, sym, qty, d, io) ==
    Notify([st EXCEPT !.orders[sym] = Append(@, [qty |-> qty, day |-> d])],
           sym, GttNotice(io.gtt), io)

\* worker.py:390-415: the ISIN lookup (cached) and the order request
PlaceOrder(st, sym, d, io) ==
    LET has_isin == sym \in st.symbol_to_isin \/ io.info_ok
        qty == IF sym \in DOMAIN st.symbol_to_qty THEN st.symbol_to_qty[sym] ELSE 1
        st1 == [st EXCEPT !.symbol_to_isin = IF io.info_ok THEN @ \cup {sym} ELSE @]
    IN  IF st.raised THEN st
        ELSE IF has_isin THEN trigger_gtt_trade(st1, sym, qty, d, io)
        ELSE Notify(st1, sym, "ISIN_NOT_FOUND", io)

\* Mutant: the entry is recorded in live_trades and not in live_alerted
Enter_SkipsAlerted(st, sym, ltp, d, io) ==
    LET entry == EntryOf(st.day_highs[sym])
        target == TargetOf(entry)
        sl == SlOf(entry)
        st1 == [st EXCEPT
                  !.live_trades = (sym :> [target |-> target, sl |-> sl]) @@ @,
                  !.stats.entered = @ + 1]
    IN  PlaceOrder(Send(st1, sym, Event("ENTRY", ltp, target, sl), d, io), sym, d, io)

\* worker.py:367-415
Enter(st, sym, ltp, d, io) ==
    LET entry == EntryOf(st.day_highs[sym])
        target == TargetOf(entry)
        sl == SlOf(entry)
        st1 == [st EXCEPT
                  !.live_trades = (sym :> [target |-> target, sl |-> sl]) @@ @,
                  !.live_alerted = @ \cup {sym},
                  !.stats.entered = @ + 1]
    IN  PlaceOrder(Send(st1, sym, Event("ENTRY", ltp, target, sl), d, io), sym, d, io)

\* worker.py:360-415
BuyTrigger(st, sym, ltp, d, t, io) ==
    IF BuyCondition(st, sym, ltp, t) THEN Enter(st, sym, ltp, d, io) ELSE st

\* Mutant: the stoploss is tested before the target
ExitKind_SlFirst(trade, ltp) ==
    IF ltp <= trade.sl THEN "SL_HIT"
    ELSE IF ltp >= trade.target THEN "TARGET_HIT"
    ELSE "NONE"

\* worker.py:420-427: which exit, if any, the price causes
ExitKind(trade, ltp) ==
    IF ltp >= trade.target THEN "TARGET_HIT"
    ELSE IF ltp <= trade.sl THEN "SL_HIT"
    ELSE "NONE"

RemoveKey(f, k) == [x \in DOMAIN f \ {k} |-> f[x]]

\* Mutant: an exit closes the trade and counts nothing
CheckExit_NoCount(st, sym, ltp, d, io) ==
    IF st.raised \/ sym \notin DOMAIN st.live_trades THEN st
    ELSE LET trade == st.live_trades[sym]
             kind == ExitKind(trade, ltp)
         IN  IF kind = "NONE" THEN st
             ELSE [Send(st, sym, Event(kind, ltp, trade.target, trade.sl), d, io)
                     EXCEPT !.live_trades = RemoveKey(@, sym)]

\* worker.py:417-427
CheckExit(st, sym, ltp, d, io) ==
    IF st.raised \/ sym \notin DOMAIN st.live_trades THEN st
    ELSE LET trade == st.live_trades[sym]
             kind == ExitKind(trade, ltp)
             st1 == [st EXCEPT
                       !.stats.target_hit = IF kind = "TARGET_HIT" THEN @ + 1 ELSE @,
                       !.stats.sl_hit = IF kind = "SL_HIT" THEN @ + 1 ELSE @]
         IN  IF kind = "NONE" THEN st
             ELSE [Send(st1, sym, Event(kind, ltp, trade.target, trade.sl), d, io)
                     EXCEPT !.live_trades = RemoveKey(@, sym)]

\* worker.py:356: before 10:00 the candle only builds the day high
BuildsDayHigh(t) == t < DAY_HIGH_END

UpdateDayHigh(st, sym, high) ==
    LET old == IF sym \in DOMAIN st.day_highs THEN st.day_highs[sym] ELSE 0
    IN  [st EXCEPT !.day_highs = (sym :> Max2(old, high)) @@ @]

\* Mutant: the day high is kept up all day, and from 10:00 on the candle
\* goes on to the buy trigger and the exit check
ProcessCandle_NoContinue(st, sym, candle, d, t, io) ==
    IF ~CandleUsable(candle) THEN st
    ELSE LET c == candle.items
             st0 == [st EXCEPT !.applied = (sym :> c) @@ @]
             st1 == UpdateDayHigh(st0, sym, High(c))
         IN  IF BuildsDayHigh(t) THEN st1
             ELSE CheckExit(BuyTrigger(st1, sym, Ltp(c), d, t, io), sym, Ltp(c), d, io)

\* worker.py:348-427, one iteration of the for loop
ProcessCandle(st, sym, candle, d, t, io) ==
    IF ~CandleUsable(candle) THEN st
    ELSE LET c == candle.items
             st0 == [st EXCEPT !.applied = (sym :> c) @@ @]
         IN  IF BuildsDayHigh(t) THEN UpdateDayHigh(st0, sym, High(c))
             ELSE CheckExit(BuyTrigger(st0, sym, Ltp(c), d, t, io), sym, Ltp(c), d, io)

\* Mutant: the loop ends at the first result its guard rejects
RECURSIVE ProcessAll_StopsAtFailure(_, _, _, _, _, _)
ProcessAll_StopsAtFailure(st, syms, results, d, t, io) ==
    IF syms = <<>> \/ st.raised THEN st
    ELSE IF ~CandleUsable(results[Head(syms)]) THEN st
    ELSE ProcessAll_StopsAtFailure(
             ProcessCandle(st, Head(syms), results[Head(syms)], d, t, io),
             Tail(syms), results, d, t, io)

\* worker.py:348, the for loop over zip(symbols, candles); an exception
\* raised in its body ends it
RECURSIVE ProcessAll(_, _, _, _, _, _)
ProcessAll(st, syms, results, d, t, io) ==
    IF syms = <<>> \/ st.raised THEN st
    ELSE ProcessAll(ProcessCandle(st, Head(syms), results[Head(syms)], d, t, io),
                    Tail(syms), results, d, t, io)

----------------------------------------------------------------------------
(* The state of one process, as the record the loop body works on *)

ZeroStats == [entered |-> 0, exited |-> 0, target_hit |-> 0, sl_hit |-> 0]

\* Mutant: the trade state is rebuilt in every iteration
StateRec_PerCycle ==
    [live_alerted |-> {}, live_trades |-> <<>>,
     day_highs |-> <<>>, stats |-> stats,
     symbol_to_isin |-> symbol_to_isin, symbol_to_qty |-> symbol_to_qty,
     events |-> events, orders |-> orders, notices |-> notices,
     applied |-> <<>>, emitted |-> [s \in companies |-> <<>>], raised |-> FALSE]

StateRec ==
    [live_alerted |-> live_alerted, live_trades |-> live_trades,
     day_highs |-> day_highs, stats |-> stats,
     symbol_to_isin |-> symbol_to_isin, symbol_to_qty |-> symbol_to_qty,
     events |-> events, orders |-> orders, notices |-> notices,
     applied |-> <<>>, emitted |-> [s \in companies |-> <<>>], raised |-> FALSE]

NoFeed == [name |-> "none", rest |-> <<>>]

\* No fan-out is in progress
NoFan == [caller |-> "none", tasks |-> <<>>]

\* worker.py:53-76, the module state after import
WorkerInit ==
    /\ now \in TimePoints
    /\ day = 1
    /\ restarts = 0
    /\ live_alerted = {}
    /\ live_trades = <<>>
    /\ day_highs = <<>>
    /\ stats = ZeroStats
    /\ symbol_to_isin = {}
    /\ symbol_to_qty = <<>>
    /\ cold_start_done = FALSE
    /\ cold_sent = {}
    /\ cold_pc = "idle"
    /\ loop_pc = "run"
    /\ symbols = <<>>
    /\ candles = <<>>
    /\ fetched = {}
    /\ applied = <<>>
    /\ emitted = [s \in companies |-> <<>>]
    /\ events = [s \in companies |-> <<>>]
    /\ orders = [s \in companies |-> <<>>]
    /\ notices = [s \in companies |-> <<>>]
    /\ source = "none"
    /\ feed = NoFeed
    /\ fan = NoFan

\* No program beside the worker is running
Idle == [pc |-> "idle"]

ToolsIdle ==
    /\ runner = Idle
    /\ retrier = Idle
    /\ broadcaster = Idle
    /\ app = Idle
    /\ trigger = Idle

\* The worker's process after import, nothing else running
Init == WorkerInit /\ ToolsIdle

\* Time passes (while the loop sleeps or waits): the clock does not run
\* backwards, and the model stops at the end of day MaxDay.  The record of the
\* cycle run at the instant left behind is dropped.
Clock ==
    /\ \E d \in {day, day + 1}, t \in TimePoints :
          /\ d <= MaxDay
          /\ IF d = day THEN t > now ELSE TRUE
          /\ now' = t
          /\ day' = d
    /\ fan = NoFan
    /\ loop_pc' = IF loop_pc = "stopped" THEN "stopped" ELSE "run"
    /\ symbols' = <<>>
    /\ candles' = <<>>
    /\ fetched' = {}
    /\ applied' = <<>>
    /\ emitted' = [s \in companies |-> <<>>]
    /\ UNCHANGED <<restarts, tools, live_alerted, live_trades, day_highs, stats,
                   symbol_to_isin, symbol_to_qty, cold_start_done, cold_sent, cold_pc,
                   events, orders, notices, source, feed, fan>>

\* worker.py:348, zip(symbols, candles): the symbols that get a result, and
\* the result each of them gets
ZipSymbols(syms, cs) ==
    SubSeq(syms, 1, IF Len(cs) < Len(syms) THEN Len(cs) ELSE Len(syms))

RECURSIVE ZipResults(_, _)
ZipResults(syms, cs) ==
    IF syms = <<>> \/ cs = <<>> THEN <<>>
    ELSE (Head(syms) :> Head(cs)) @@ ZipResults(Tail(syms), Tail(cs))

\* A price field that is null in the provider's reply is written -1
IsNull(x) == x < 0

\* worker.py:352-353: max(candle[:4]) raises TypeError on a candle that the
\* guard accepts and that has a null among its first four fields
Raises(candle) ==
    CandleUsable(candle) /\ \E i \in 1..4 : IsNull(candle.items[i])

\* The place in the gathered list, from place i on, of the first result on
\* which the loop body raises, 0 if there is none
RECURSIVE FirstRaisingFrom(_, _)
FirstRaisingFrom(cs, i) ==
    IF i > Len(cs) THEN 0
    ELSE IF Raises(cs[i]) THEN i
    ELSE FirstRaisingFrom(cs, i + 1)

FirstRaising(cs) == FirstRaisingFrom(cs, 1)

\* The symbols the for loop of worker.py:348 gets through: all that zip
\* yields, or those before the one on which the body raises
LoopSymbols(syms, cs) ==
    LET raising == FirstRaising(cs)
    IN  IF raising = 0 THEN ZipSymbols(syms, cs)
        ELSE SubSeq(ZipSymbols(syms, cs), 1, raising - 1)

\* Mutant: the exception leaves the loop
OnCycleException_Propagates == "stopped"

\* worker.py:431-433: the exception is logged and the loop sleeps ERROR_SLEEP
OnCycleException == "error_sleep"

\* Mutant: cold start is called on the event loop, which it holds until done
EventLoopFree_Inline == cold_pc # "running"

\* worker.py:443-446: cold start runs in a thread of its own
\* (asyncio.to_thread), so the event loop is free whatever that thread does
EventLoopFree == TRUE

\* The live loop gets to start an iteration
LoopRuns == loop_pc # "stopped" /\ EventLoopFree

\* What the services asked during a cycle answer: whether the company-info
\* lookup yields an ISIN, with an order service that places the order and a
\* notifier that takes every message
IOs == [info_ok : BOOLEAN, gtt : {"placed"}, send_ok : {TRUE}]

\* worker.py:336-429: an iteration in market hours, given what the call of
\* fetch_today_signals met, the signals it returned and the gathered results
CycleFrom(met, sigs, cs, io) ==
    \E syms \in {SymbolList(sigs)}, got \in {cs} :
      \E zipped \in {ZipResults(syms, got)}, failed \in {FirstRaising(got)} :
        \E st1 \in {ProcessAll([StateRec EXCEPT !.symbol_to_qty = UpdateQty(@, sigs)],
                                LoopSymbols(syms, got), zipped, day, now, io)} :
        /\ loop_pc' = IF failed = 0 /\ ~st1.raised THEN "run" ELSE OnCycleException
        /\ symbols' = syms
        /\ candles' = got
        /\ fetched' = {s \in DOMAIN zipped : HasLatest(zipped[s])}
        /\ applied' = st1.applied
        /\ emitted' = st1.emitted
        /\ live_alerted' = st1.live_alerted
        /\ live_trades' = st1.live_trades
        /\ day_highs' = st1.day_highs
        /\ stats' = st1.stats
        /\ symbol_to_isin' = st1.symbol_to_isin
        /\ symbol_to_qty' = st1.symbol_to_qty
        /\ events' = st1.events
        /\ orders' = st1.orders
        /\ notices' = st1.notices
        /\ source' = met
        /\ UNCHANGED <<now, day, restarts, tools, cold_start_done, cold_sent, cold_pc>>

\* An iteration whose signal source answered with the signals sigs
CycleBody(sigs, cs, io) == CycleFrom("found", sigs, cs, io)

\* An iteration on results given per symbol
Cycle(sigs, results, io) ==
    /\ CycleBody(sigs, gather(SymbolList(sigs), results), io)
    /\ UNCHANGED <<feed, fan>>

\* worker.py:345-346: the results gathered from fetch_latest_candle
Gather(sigs, resp) ==
    gather(SymbolList(sigs),
           [s \in symbol_signal_map(sigs) |-> fetch_latest_candle(s, resp[s])])

\* worker.py:328-429 with the quote client of groww_async.py
TickOpen ==
    /\ LoopRuns
    /\ is_market_time(now)
    /\ \E sigs \in SignalSets, io \in IOs :
          \E resp \in [symbol_signal_map(sigs) -> Responses] :
              /\ CycleBody(sigs, Gather(sigs, resp), io)
              /\ UNCHANGED <<feed, fan>>

\* worker.py:332-334: outside market hours the iteration only sleeps
TickClosed ==
    /\ LoopRuns
    /\ ~is_market_time(now)
    /\ UNCHANGED vars

\* The merged reply of the analysed-data services (worker.py:278-292): whether
\* there is a meta record, and the symbols of the trades in its buckets
AnalyzedPayloads ==
    {[meta |-> FALSE, profit |-> {}, stoploss |-> {}, entered |-> {}],
     [meta |-> TRUE, profit |-> {"B"}, stoploss |-> {"C"}, entered |-> {"A"}]}

\* A message of the cold-start thread: its kind and the symbols of the trades
\* it shows
ColdMsg(kind, rows) == [kind |-> kind, rows |-> rows]

\* worker.py:199-201: a table is sent for a bucket that is not empty
TableMsgs(title, bucket) == IF bucket = {} THEN {} ELSE {ColdMsg(title, bucket)}

\* Mutant: the cold-start thread marks a symbol as alerted
ColdUnchanged_WritesAlerted ==
    /\ live_alerted' = live_alerted \cup {"A"}
    /\ UNCHANGED <<now, day, restarts, tools, live_trades, day_highs, stats,
                   symbol_to_isin, symbol_to_qty, loop_pc, symbols, candles, fetched,
                   applied, emitted, events, orders, notices, source, feed, fan>>

\* What a step of the cold-start thread leaves alone: run_cold_start_from_api
\* declares `global cold_start_done` only and assigns no other module variable
ColdUnchanged ==
    UNCHANGED <<now, day, restarts, tools, live_alerted, live_trades, day_highs, stats,
                symbol_to_isin, symbol_to_qty, loop_pc, symbols, candles, fetched,
                applied, emitted, events, orders, notices, source, feed, fan>>

\* worker.py:294-297: the thread starts and tests the session clock
ColdStartBegin ==
    /\ cold_pc = "idle"
    /\ cold_pc' = "running"
    /\ cold_sent' = IF is_market_time(now) THEN {}
                    ELSE {ColdMsg("MARKET_CLOSED", {})}
    /\ UNCHANGED cold_start_done
    /\ ColdUnchanged

\* worker.py:299-316: the analysed data arrive and the summaries are sent
ColdStartFinish ==
    /\ cold_pc = "running"
    /\ cold_pc' = "done"
    /\ \E data \in AnalyzedPayloads :
          cold_sent' =
              cold_sent
              \cup (IF data.meta THEN {ColdMsg("META", {})} ELSE {})
              \cup {ColdMsg("PIE", {})}
              \cup TableMsgs("TARGET HIT", data.profit)
              \cup TableMsgs("STOPLOSS HIT", data.stoploss)
              \cup TableMsgs("ENTERED", data.entered)
    /\ cold_start_done' = TRUE
    /\ ColdUnchanged

\* worker.py:294-316, the cold-start thread
run_cold_start_from_api == ColdStartBegin \/ ColdStartFinish

\* worker.py:443-446 with app.py:131-135: asyncio.gather without
\* return_exceptions raises the thread's exception in run_worker, which leaves
\* loop.run_until_complete; the event loop runs no more and the task of the
\* live loop is never resumed.  start_worker reports the crash and re-raises.
OnColdStartException == "stopped"

\* worker.py:282-283, 299: the request for the analysed data raises
\* (requests.get or r.json(), not caught), and with it the cold-start thread
ColdStartFail ==
    /\ cold_pc = "running"
    /\ cold_pc' = "failed"
    /\ loop_pc' = OnColdStartException
    /\ UNCHANGED <<now, day, restarts, tools, live_alerted, live_trades, day_highs, stats,
                   symbol_to_isin, symbol_to_qty, cold_start_done, cold_sent,
                   symbols, candles, fetched, applied, emitted, events, orders, notices, source,
                   feed, fan>>

\* The process is stopped and started again: the module state is built anew
\* (worker.py:53-76); what was sent and ordered stays sent and ordered.
Restart ==
    /\ restarts < MaxRestarts
    /\ restarts' = restarts + 1
    /\ live_alerted' = {}
    /\ live_trades' = <<>>
    /\ day_highs' = <<>>
    /\ stats' = ZeroStats
    /\ symbol_to_isin' = {}
    /\ symbol_to_qty' = <<>>
    /\ cold_start_done' = FALSE
    /\ cold_sent' = {}
    /\ cold_pc' = "idle"
    /\ loop_pc' = "run"
    /\ symbols' = <<>>
    /\ candles' = <<>>
    /\ fetched' = {}
    /\ applied' = <<>>
    /\ emitted' = [s \in companies |-> <<>>]
    /\ fan' = NoFan
    /\ source' = "none"
    /\ UNCHANGED <<now, day, events, orders, notices, feed, tools>>

Next ==
    Clock \/ TickOpen \/ TickClosed \/ run_cold_start_from_api \/ ColdStartFail \/ Restart

Spec == Init /\ [][Next]_vars

----------------------------------------------------------------------------
(* The loop body on the results its guard accepts: each gathered result is  *)
(* the latest candle itself (a list), or None when there is none.  The      *)
(* first instrument is given every candle of the model, the second one the  *)
(* provider's ordinary candle.                                              *)

LiveResults == {None} \cup {PyList(c) : c \in Candles}

OrdinaryResults == {None, PyList(EpochCandle)}

LiveResultsOf(s) == IF s = "A" THEN LiveResults ELSE OrdinaryResults

LiveTickOn(sets, rich) ==
    /\ LoopRuns
    /\ is_market_time(now)
    /\ \E sigs \in sets, io \in IOs :
          \E results \in [symbol_signal_map(sigs) -> LiveResults] :
              /\ \A s \in symbol_signal_map(sigs) :
                    results[s] \in (IF rich THEN LiveResultsOf(s) ELSE OrdinaryResults)
              /\ Cycle(sigs, results, io)

LiveTick == LiveTickOn(SignalSets, TRUE)

LiveNext == Clock \/ LiveTick \/ TickClosed

\* One run of the process
LiveSpec == Init /\ [][LiveNext]_vars

OneSymbolSets == {{}, {"A"}}

RestartTick == LiveTickOn(OneSymbolSets, TRUE)

ColdLiveNext ==
    Clock \/ RestartTick \/ TickClosed \/ run_cold_start_from_api \/ ColdStartFail

\* One run of the process: the live loop on list-shaped candles, with the
\* cold-start thread beside it
ColdLiveSpec == Init /\ [][ColdLiveNext]_vars

RestartNext == Clock \/ RestartTick \/ TickClosed \/ run_cold_start_from_api \/ Restart

\* The process with restarts and its cold-start thread, one instrument signalled
RestartSpec == Init /\ [][RestartNext]_vars

OrdinaryTick == LiveTickOn(SignalSets, FALSE)

OrdinaryNext == Clock \/ OrdinaryTick \/ TickClosed

\* One run of the process in which every quote is the provider's ordinary
\* candle (stamped with an epoch time) or missing
OrdinarySpec == Init /\ [][OrdinaryNext]_vars

\* The provider's replies to one request, in kind: failure, empty reply,
\* one ordinary candle, a reply out of form
FetchResponses ==
    {[ok |-> FALSE, candles |-> PyList(<<>>)], [ok |-> TRUE, candles |-> PyList(<<>>)],
     [ok |-> TRUE, candles |-> PyList(<<EpochCandle>>)], [ok |-> TRUE, candles |-> PyDict]}

\* The latest candle a gathered result carries
Latest(result) == IF result.kind = "tuple" THEN result.items[2] ELSE result

IsolationSets == {{"A"}, {"A", "B"}}

\* A cycle whose fetches succeed, come back empty, fail or raise, symbol by
\* symbol; the loop body is handed the latest candle of each result
IsolationTick ==
    /\ LoopRuns
    /\ is_market_time(now)
    /\ \E sigs \in IsolationSets, io \in IOs :
          \E resp \in [symbol_signal_map(sigs) -> FetchResponses] :
              Cycle(sigs, [s \in symbol_signal_map(sigs) |->
                              Latest(fetch_latest_candle(s, resp[s]))], io)

IsolationNext == Clock \/ IsolationTick \/ TickClosed

\* One run of the process whose fetches fail independently of each other
IsolationSpec == Init /\ [][IsolationNext]_vars

\* A candle whose high is null in the provider's reply
NullCandle == <<TsEpoch, 9800, -1, 9700, 9800, 1>>

ErrorResults == {None, PyList(EpochCandle), PyList(NullCandle)}

\* worker.py:336 with signals_api.py:39: a reply of the signals service that
\* is JSON but no object makes fetch_today_signals raise, before the cycle
\* has changed anything
SignalsRaise ==
    /\ LoopRuns
    /\ is_market_time(now)
    /\ loop_pc' = OnCycleException
    /\ source' = "malformed"
    /\ UNCHANGED <<now, day, restarts, tools, live_alerted, live_trades, day_highs, stats,
                   symbol_to_isin, symbol_to_qty, cold_start_done, cold_sent, cold_pc,
                   symbols, candles, fetched, applied, emitted, events, orders, notices,
                   feed, fan>>

\* A cycle in which a quote may have a null field, on which the loop body
\* raises (worker.py:353)
ErrorTick ==
    /\ LoopRuns
    /\ is_market_time(now)
    /\ \E sigs \in IsolationSets, io \in IOs :
          \E results \in [symbol_signal_map(sigs) -> ErrorResults] :
              Cycle(sigs, results, io)

ErrorNext == Clock \/ ErrorTick \/ SignalsRaise \/ TickClosed

\* One run of the process in which cycles raise
ErrorSpec == Init /\ [][ErrorNext]_vars

\* The answers of the services with an order service that may reject the
\* order or fail to answer; without an ISIN the order service is not asked
OrderIOs ==
    {io \in [info_ok : BOOLEAN, gtt : {"placed", "rejected", "raised"}, send_ok : {TRUE}] :
        io.info_ok \/ io.gtt = "placed"}

\* The answers of the services with a notifier that may fail
NotifierIOs == [info_ok : {TRUE}, gtt : {"placed"}, send_ok : BOOLEAN]

\* The results of the symbols of a cycle: A stays flat or rises above its
\* entry level, B stays flat; with rich, A also rises above its target
HighCandle == <<0, 10600, 10600, 10600, 10600, 1>>

CollaboratorResults(s, rich) ==
    IF s = "A"
      THEN {None, PyList(LowCandle), PyList(MidCandle)}
             \cup (IF rich THEN {PyList(HighCandle)} ELSE {})
    ELSE {None, PyList(LowCandle)}

CollaboratorSets == {{"A", "B"}}

\* A cycle on list-shaped candles with the services answering as in ios
CollaboratorTick(ios, rich) ==
    /\ LoopRuns
    /\ is_market_time(now)
    /\ \E sigs \in CollaboratorSets, io \in ios :
          \E results \in [symbol_signal_map(sigs) -> CollaboratorResults("A", rich)] :
              /\ \A s \in symbol_signal_map(sigs) : results[s] \in CollaboratorResults(s, rich)
              /\ Cycle(sigs, results, io)

OrderTick == CollaboratorTick(OrderIOs, FALSE)

OrderNext == Clock \/ OrderTick \/ TickClosed

\* One run of the process whose order requests may fail
OrderSpec == Init /\ [][OrderNext]_vars

NotifierTick == CollaboratorTick(NotifierIOs, TRUE)

NotifierNext == Clock \/ NotifierTick \/ TickClosed

\* One run of the process whose notifier may fail
NotifierSpec == Init /\ [][NotifierNext]_vars

\* The replies of the signals service
SourceReplies ==
    {Reply("failed", {}), Reply("malformed", {}), Reply("not_found", {}),
     Reply("not_found", {"A"}), Reply("found", {}), Reply("found", {"A"}),
     Reply("found", {"B"}), Reply("found", {"A", "B"})}

\* worker.py:328-429: an iteration in market hours whose call of
\* fetch_today_signals meets reply
SourceTickOn(reply) ==
    /\ LoopRuns
    /\ is_market_time(now)
    /\ \E got \in {fetch_today_signals(reply)} :
          IF got.raised
            THEN /\ loop_pc' = OnCycleException
                 /\ source' = reply.kind
                 /\ UNCHANGED <<now, day, restarts, tools, live_alerted, live_trades, day_highs,
                                stats, symbol_to_isin, symbol_to_qty, cold_start_done,
                                cold_sent, cold_pc, symbols, candles, fetched, applied,
                                emitted, events, orders, notices, feed, fan>>
          ELSE \E io \in IOs :
                 \E results \in [symbol_signal_map(got.signals) -> CollaboratorResults("A", FALSE)] :
                    /\ \A s \in symbol_signal_map(got.signals) :
                          results[s] \in CollaboratorResults(s, FALSE)
                    /\ CycleFrom(reply.kind, got.signals,
                                 gather(SymbolList(got.signals), results), io)
                    /\ UNCHANGED <<feed, fan>>

SourceTick == \E reply \in SourceReplies : SourceTickOn(reply)

SourceNext == Clock \/ SourceTick \/ TickClosed

\* One run of the process whose signals service may fail
SourceSpec == Init /\ [][SourceNext]_vars

----------------------------------------------------------------------------
(* The fan-out, request by request.  The live loop starts one              *)
(* fetch_latest_candle per symbol on a session whose connector admits      *)
(* CONCURRENCY connections (worker.py:323, 345-346); fetch_batch of         *)
(* test_runner.py starts one fetch_candles_for_range per symbol, each       *)
(* inside `async with semaphore` (test_runner.py:41-51, 113-115).  A task   *)
(* is "created" until it holds what its caller makes it acquire, "waiting"  *)
(* while its request waits for a connection, "inflight" while the request   *)
(* is on a connection, "done" when its coroutine has returned or raised.    *)

FetchSets == {{}, {"A"}, {"A", "B"}, {"A", "B", "C"}, {"B", "Z"}}

\* The task of one symbol when the fan-out starts: the live loop's task calls
\* session.get at once, the task of fetch_batch first waits for the semaphore
NewTask(caller) ==
    [st |-> IF caller = "test_runner" THEN "created" ELSE "waiting",
     permit |-> FALSE,
     attempts |-> IF caller = "test_runner" THEN 0 ELSE 1,
     failed |-> FALSE,
     result |-> None]

InFlight == {s \in DOMAIN fan.tasks : fan.tasks[s].st = "inflight"}

Permits == {s \in DOMAIN fan.tasks : fan.tasks[s].permit}

\* What the coroutine of the caller returns for a response
FetchResult(caller, s, resp) ==
    IF caller = "test_runner" THEN fetch_candles_for_range(s, resp)
    ELSE fetch_latest_candle(s, resp)

\* Mutant: the connector hands out connections without a limit
ConnectorAdmits_NoLimit(n) == TRUE

\* aiohttp.TCPConnector(limit=CONCURRENCY), worker.py:323, test_runner.py:113:
\* a connection is handed out while fewer than the limit are in use
ConnectorAdmits(n) == n < CONCURRENCY

FetchStart(caller) ==
    /\ fan = NoFan
    /\ \E sigs \in FetchSets :
          /\ fan' = [caller |-> caller,
                     tasks |-> [s \in symbol_signal_map(sigs) |-> NewTask(caller)]]
          /\ symbols' = SymbolList(sigs)
          /\ symbol_to_qty' = IF caller = "worker" THEN UpdateQty(symbol_to_qty, sigs)
                               ELSE symbol_to_qty
    /\ candles' = <<>>
    /\ fetched' = {}
    /\ applied' = <<>>
    /\ emitted' = [s \in companies |-> <<>>]
    /\ loop_pc' = IF caller = "worker" THEN "run" ELSE loop_pc
    /\ source' = IF caller = "worker" THEN "found" ELSE source
    /\ UNCHANGED <<now, day, restarts, tools, live_alerted, live_trades, day_highs, stats,
                   symbol_to_isin, cold_start_done, cold_sent, cold_pc, events, orders, notices,
                   feed>>

\* worker.py:332-346
WorkerFanOut == LoopRuns /\ is_market_time(now) /\ FetchStart("worker")

\* test_runner.py:127-138
TestRunnerFanOut == FetchStart("test_runner")

FanStep(s, task) ==
    /\ fan' = [fan EXCEPT !.tasks[s] = task]
    /\ UNCHANGED <<now, day, restarts, tools, live_alerted, live_trades, day_highs, stats,
                   symbol_to_isin, symbol_to_qty, cold_start_done, cold_sent, cold_pc,
                   loop_pc, symbols, candles, fetched, applied, emitted, events, orders, notices, source,
                   feed>>

\* test_runner.py:42, `async with semaphore` entered
Acquire ==
    \E s \in DOMAIN fan.tasks :
        /\ fan.tasks[s].st = "created"
        /\ Cardinality(Permits) < CONCURRENCY
        /\ FanStep(s, [fan.tasks[s] EXCEPT !.st = "waiting", !.permit = TRUE,
                                            !.attempts = @ + 1])

\* groww_async.py:46, session.get gets its connection
Connect ==
    \E s \in DOMAIN fan.tasks :
        /\ fan.tasks[s].st = "waiting"
        /\ ConnectorAdmits(Cardinality(InFlight))
        /\ FanStep(s, [fan.tasks[s] EXCEPT !.st = "inflight"])

\* groww_async.py:56-74: the reply arrives, or the request raises
Respond ==
    \E s \in DOMAIN fan.tasks, resp \in FetchResponses :
        /\ fan.tasks[s].st = "inflight"
        /\ FanStep(s, [fan.tasks[s] EXCEPT !.st = "done", !.permit = FALSE,
                                            !.failed = ~resp.ok,
                                            !.result = FetchResult(fan.caller, s, resp)])

\* groww_async.py:54, 72-74: the request times out while it waits for a
\* connection
TimeoutWaiting ==
    \E s \in DOMAIN fan.tasks :
        /\ fan.tasks[s].st = "waiting"
        /\ FanStep(s, [fan.tasks[s] EXCEPT
                          !.st = "done", !.permit = FALSE, !.failed = TRUE,
                          !.result = FetchResult(fan.caller, s,
                                                 [ok |-> FALSE, candles |-> PyList(<<>>)])])

\* worker.py:346-429 and test_runner.py:51: every task is done, gather returns
FetchDone ==
    /\ fan # NoFan
    /\ \A s \in DOMAIN fan.tasks : fan.tasks[s].st = "done"
    /\ fan' = NoFan
    /\ LET cs == gather(symbols, [s \in DOMAIN fan.tasks |-> fan.tasks[s].result])
       IN  IF fan.caller = "worker"
           THEN /\ \E io \in IOs : CycleBody(DOMAIN fan.tasks, cs, io)
                /\ UNCHANGED feed
           ELSE /\ candles' = cs
                /\ UNCHANGED <<now, day, restarts, tools, live_alerted, live_trades, day_highs,
                               stats, symbol_to_isin, symbol_to_qty, cold_start_done,
                               cold_sent, cold_pc, loop_pc, symbols, fetched, applied,
                               emitted, events,
                               orders, notices, source, feed>>

FetchNext ==
    \/ Clock \/ TickClosed \/ WorkerFanOut \/ TestRunnerFanOut
    \/ Acquire \/ Connect \/ Respond \/ TimeoutWaiting \/ FetchDone

\* The process with its fan-outs taken request by request
FetchSpec == Init /\ [][FetchNext]_vars

----------------------------------------------------------------------------
(* Scenario runs: a fixed sequence of last prices is fed to the loop body,  *)
(* one price per cycle, for the instrument "A" (signal: entry 100.00,       *)
(* target 106.00, stoploss 99.00), every cycle inside the live buy window   *)
(* and not before 10:00.  The cycles before 10:00 saw the provider's        *)
(* ordinary candle or nothing.                                              *)

ScenarioPrices(name) ==
    IF name = "target" THEN <<9500, 9800, 10000, 10300, 10700>>
    ELSE IF name = "stoploss" THEN <<10000, 9900>>
    ELSE <<>>

\* A candle that traded at one price
FlatCandle(p) == <<TsEpoch, p, p, p, p, 1>>

ScenarioInit ==
    /\ now \in TimePoints
    /\ day = 1
    /\ restarts = 0
    /\ live_alerted = {}
    /\ live_trades = <<>>
    /\ day_highs = <<>>
    /\ stats = ZeroStats
    /\ symbol_to_isin = {}
    /\ symbol_to_qty = <<>>
    /\ cold_start_done = FALSE
    /\ cold_sent = {}
    /\ cold_pc = "idle"
    /\ loop_pc = "run"
    /\ symbols = <<>>
    /\ candles = <<>>
    /\ fetched = {}
    /\ applied = <<>>
    /\ emitted = [s \in companies |-> <<>>]
    /\ events = [s \in companies |-> <<>>]
    /\ orders = [s \in companies |-> <<>>]
    /\ notices = [s \in companies |-> <<>>]
    /\ source = "none"
    /\ \E name \in {"target", "stoploss"} :
          feed = [name |-> name, rest |-> ScenarioPrices(name)]
    /\ fan = NoFan
    /\ ToolsIdle

\* A cycle before 10:00 and before the scenario's first price
WarmTick ==
    /\ BuildsDayHigh(now)
    /\ feed.rest = ScenarioPrices(feed.name)
    /\ LiveTickOn({{"A"}}, FALSE)

\* A cycle inside the live buy window that is given the scenario's next price
FeedTick ==
    /\ LoopRuns
    /\ is_market_time(now)
    /\ LIVE_BUY_START <= now /\ now <= LIVE_BUY_END
    /\ ~BuildsDayHigh(now)
    /\ feed.rest # <<>>
    /\ \E io \in IOs :
          CycleBody({"A"}, <<PyList(FlatCandle(Head(feed.rest)))>>, io)
    /\ feed' = [feed EXCEPT !.rest = Tail(@)]
    /\ UNCHANGED fan

ScenarioNext == Clock \/ WarmTick \/ FeedTick \/ TickClosed

ScenarioSpec == ScenarioInit /\ [][ScenarioNext]_vars

----------------------------------------------------------------------------
(* test_runner.py: run_test_for_date(date, symbols_filter)                  *)

\* The symbols_filter argument: None (given is FALSE) or a list of symbols
Filter(given, syms) == [given |-> given, syms |-> syms]

Filters ==
    {Filter(FALSE, {}), Filter(TRUE, {}), Filter(TRUE, {"A"}), Filter(TRUE, {"B", "Z"})}

\* The replies of the signals service to the runner: those of the live loop
\* and signals of symbols that are not in companies
RunnerReplies == SourceReplies \cup {Reply("found", {"Z"}), Reply("found", {"A", "Z"})}

\* test_runner.py:99, the truth value of `symbols_filter`: None and the empty
\* list are both false
FilterApplies(filter) == filter.given /\ filter.syms # {}

\* test_runner.py:94-101: the symbols whose candles are requested
Eligible(signals, filter) ==
    {s \in signals : s \in companies /\ (FilterApplies(filter) => s \in filter.syms)}

\* Mutant: the results with no candles are kept
Payload_KeepsEmpty(results) == [s \in DOMAIN results |-> results[s].items[2]]

\* test_runner.py:140-151: the candles by symbol, of the results that are no
\* exception and have candles
Payload(results) ==
    [s \in {x \in DOMAIN results :
               results[x].kind = "tuple" /\ Truthy(results[x].items[2])} |->
        results[s].items[2]]

\* The call record: the arguments' effect (reply of the signals service,
\* filter), the symbol list, the results of fetch_candles_for_range, the
\* number of requests made, and the returned count and data
RunnerCalled(reply, filter) ==
    [pc |-> "called", reply |-> reply, filter |-> filter, symbols |-> <<>>,
     results |-> <<>>, calls |-> 0, count |-> 0, data |-> <<>>]

RunnerStep(next) ==
    /\ runner' = next
    /\ UNCHANGED <<worker_state, retrier, broadcaster, app, trigger>>

\* test_runner.py:81-108: the signals are fetched and the symbol list built;
\* the call returns at once when either is empty
RunnerStart ==
    /\ runner.pc = "called"
    /\ \E got \in {fetch_today_signals(runner.reply)} :
          \E syms \in {SelectSeq(Order, LAMBDA s : s \in Eligible(got.signals, runner.filter))} :
             RunnerStep([runner EXCEPT
                 !.pc = IF got.raised THEN "raised"
                        ELSE IF got.signals = {} \/ syms = <<>> THEN "returned"
                        ELSE "fetching",
                 !.symbols = IF got.raised \/ got.signals = {} THEN <<>> ELSE syms])

\* test_runner.py:41-51 with groww_async.py:147-162: the request for one
\* symbol of the batch is made and answered
RunnerFetch ==
    /\ runner.pc = "fetching"
    /\ \E i \in DOMAIN runner.symbols, resp \in FetchResponses :
          /\ runner.symbols[i] \notin DOMAIN runner.results
          /\ RunnerStep([runner EXCEPT
                 !.results = (runner.symbols[i] :>
                                 fetch_candles_for_range(runner.symbols[i], resp)) @@ @,
                 !.calls = @ + 1])

\* test_runner.py:140-166: the batch is gathered and the result returned
RunnerReturn ==
    /\ runner.pc = "fetching"
    /\ \A i \in DOMAIN runner.symbols : runner.symbols[i] \in DOMAIN runner.results
    /\ \E payload \in {Payload(runner.results)} :
          RunnerStep([runner EXCEPT !.pc = "returned",
                                    !.count = Cardinality(DOMAIN payload),
                                    !.data = payload])

RunnerInit ==
    /\ WorkerInit
    /\ now = MARKET_OPEN
    /\ \E reply \in RunnerReplies, filter \in Filters : runner = RunnerCalled(reply, filter)
    /\ retrier = Idle
    /\ broadcaster = Idle
    /\ app = Idle
    /\ trigger = Idle

RunnerNext == RunnerStart \/ RunnerFetch \/ RunnerReturn

\* One call of run_test_for_date
RunnerSpec == RunnerInit /\ [][RunnerNext]_vars

----------------------------------------------------------------------------
(***************************************************************************)
(* get-live-data.py and stock_profits.py: fetch_with_retries               *)
(***************************************************************************)

\* get-live-data.py:25, stock_profits.py:17
BASE_BACKOFF == 1

\* the largest base_backoff a caller passes
MaxBackoff == 3

RECURSIVE Pow2(_)
\* 2 ** k
Pow2(k) == IF k <= 0 THEN 1 ELSE 2 * Pow2(k - 1)

\* the two copies of fetch_with_retries; only get-live-data.py's takes
\* max_retries and base_backoff, whose defaults are the module's constants
\* (MAX_RETRIES is 3 in get-live-data.py:24 and stock_profits.py:16 too)
RetrierCalled(variant, sym, max_retries, base_backoff) ==
    [pc |-> "loop", variant |-> variant, symbol |-> sym,
     max_retries |-> max_retries, base_backoff |-> base_backoff,
     attempt |-> 0, outcomes |-> <<>>, sleeps |-> <<>>,
     result |-> [kind |-> "unset"]]

\* fetch_single_symbol's record, marked with the call that built it
SymbolRecord(sym, call) == [kind |-> "record", symbol |-> sym, call |-> call]

\* get-live-data.py:88-98 with a sleep after the last failure too
AfterFailure_AlwaysSleeps(r) ==
    LET attempt == r.attempt + 1
        wait == r.base_backoff * Pow2(attempt - 1)
    IN  [r EXCEPT !.attempt = attempt,
                  !.sleeps = Append(@, wait),
                  !.pc = IF attempt < r.max_retries THEN "loop" ELSE "returned",
                  !.result = IF attempt < r.max_retries THEN @ ELSE [kind |-> "None"]]

\* get-live-data.py:88-98: the except branch
AfterFailure(r) ==
    LET attempt == r.attempt + 1
        wait == r.base_backoff * Pow2(attempt - 1)
    IN  IF attempt < r.max_retries
        THEN [r EXCEPT !.attempt = attempt, !.sleeps = Append(@, wait), !.pc = "loop"]
        ELSE [r EXCEPT !.attempt = attempt, !.pc = "returned",
                       !.result = [kind |-> "None"]]

\* stock_profits.py:113-117: the except branch, attempt counted from 0 by
\* the for loop
AfterFailureProfits(r) ==
    LET wait == r.base_backoff * Pow2(r.attempt)
    IN  [r EXCEPT !.attempt = @ + 1,
                  !.sleeps = IF r.attempt < r.max_retries - 1 THEN Append(@, wait) ELSE @,
                  !.pc = "loop"]

RetrierStep(next) ==
    /\ retrier' = next
    /\ UNCHANGED <<worker_state, runner, broadcaster, app, trigger>>

\* get-live-data.py:85-87, stock_profits.py:110-112: one call of
\* fetch_single_symbol, which returns a record or raises
RetrierCall ==
    /\ retrier.pc = "loop"
    /\ retrier.attempt < retrier.max_retries
    /\ \E ok \in BOOLEAN :
          RetrierStep([retrier EXCEPT
              !.outcomes = Append(@, ok),
              !.pc = IF ok THEN "returned" ELSE "failed",
              !.result = IF ok THEN SymbolRecord(retrier.symbol, Len(retrier.outcomes) + 1)
                         ELSE @])

\* the except branch of the failed call
RetrierBackoff ==
    /\ retrier.pc = "failed"
    /\ RetrierStep(IF retrier.variant = "live" THEN AfterFailure(retrier)
                   ELSE AfterFailureProfits(retrier))

\* the loop ends without a return: get-live-data.py falls off the end of the
\* function, stock_profits.py:118 returns None
RetrierExit ==
    /\ retrier.pc = "loop"
    /\ ~(retrier.attempt < retrier.max_retries)
    /\ RetrierStep([retrier EXCEPT !.pc = "returned", !.result = [kind |-> "None"]])

RetrierInit ==
    /\ WorkerInit
    /\ now = MARKET_OPEN
    /\ \E sym \in companies :
          \/ \E max_retries \in 0..MAX_RETRIES, base_backoff \in BASE_BACKOFF..MaxBackoff :
                retrier = RetrierCalled("live", sym, max_retries, base_backoff)
          \/ retrier = RetrierCalled("profits", sym, MAX_RETRIES, BASE_BACKOFF)
    /\ runner = Idle
    /\ broadcaster = Idle
    /\ app = Idle
    /\ trigger = Idle

RetrierNext == RetrierCall \/ RetrierBackoff \/ RetrierExit

\* One call of fetch_with_retries; the thread that runs it is not starved
RetrierSpec == RetrierInit /\ [][RetrierNext]_vars /\ WF_vars(RetrierNext)

(***************************************************************************)
(* get-live-data.py: the WebSocket broadcaster                             *)
(***************************************************************************)

\* the connections of one run and the broadcast tasks
Sockets == {"w1", "w2"}
Broadcasts == {"b1", "b2"}

\* a broadcast task before it is started
BroadcastIdle ==
    [pc |-> "idle", todo |-> <<>>, to_remove |-> {}, sent |-> [w \in Sockets |-> 0],
     succeeded |-> {}, gone |-> {}]

\* get-live-data.py:113-115, 142: Broadcaster() with its empty client set and
\* free lock; conn is each connection's ws_handler, task each broadcast;
\* registered, unregistered and failed record the operations completed
BroadcasterNew ==
    [pc |-> "serving", clients |-> {}, holder |-> "none", waiters |-> <<>>,
     conn |-> [w \in Sockets |-> "new"],
     task |-> [b \in Broadcasts |-> BroadcastIdle],
     registered |-> {}, unregistered |-> {}, failed |-> {}]

\* asyncio.Lock: acquire succeeds at once when the lock is free and nobody
\* waits, otherwise the caller waits in line
LockFree(bc) == bc.holder = "none" /\ bc.waiters = <<>>

\* asyncio.Lock.release: the first waiter, if any, gets the lock
Release(bc) ==
    IF bc.waiters = <<>> THEN [bc EXCEPT !.holder = "none"]
    ELSE [bc EXCEPT !.holder = Head(bc.waiters), !.waiters = Tail(bc.waiters)]

Wait(bc, id) == [bc EXCEPT !.waiters = Append(@, id)]

\* get-live-data.py:119-120: the body of register
Added(bc, w) ==
    [bc EXCEPT !.clients = @ \cup {w}, !.registered = @ \cup {w}, !.conn[w] = "open"]

\* get-live-data.py:124-125: the body of unregister
Discarded(bc, w) ==
    [bc EXCEPT !.clients = @ \ {w}, !.unregistered = @ \cup {w}, !.conn[w] = "closed"]

\* get-live-data.py:136-137 without the discard
AfterSends_KeepsDead(clients, to_remove) == clients

\* get-live-data.py:136-137: the clients whose send failed are discarded
AfterSends(clients, to_remove) == clients \ to_remove

\* the orders in which list(self.clients) can enumerate a set
Orders(S) ==
    {q \in UNION {[1..n -> S] : n \in {Cardinality(S)}} :
        \A i, j \in DOMAIN q : i # j => q[i] # q[j]}

\* get-live-data.py:131-137 from the lock on: the snapshot is taken; with
\* nothing to send to the lock is released at once
Begun(bc, b, order) ==
    IF order = <<>>
    THEN Release([bc EXCEPT !.task[b].pc = "done"])
    ELSE [bc EXCEPT !.task[b].pc = "sending", !.task[b].todo = order]

BroadcasterStep(next) ==
    /\ broadcaster' = next
    /\ UNCHANGED <<worker_state, runner, retrier, app, trigger>>

\* get-live-data.py:145 with 117-120: a connection's handler registers it,
\* waiting when the lock is taken
Register(w) ==
    /\ broadcaster.conn[w] = "new"
    /\ BroadcasterStep(IF LockFree(broadcaster) THEN Added(broadcaster, w)
                       ELSE Wait([broadcaster EXCEPT !.conn[w] = "reg_wait"], w))

\* the waiting register gets the lock
RegisterResume(w) ==
    /\ broadcaster.conn[w] = "reg_wait"
    /\ broadcaster.holder = w
    /\ BroadcasterStep(Release(Added(broadcaster, w)))

\* get-live-data.py:160-163 with 122-125: the connection ends and its
\* handler unregisters it
Unregister(w) ==
    /\ broadcaster.conn[w] = "open"
    /\ BroadcasterStep(IF LockFree(broadcaster) THEN Discarded(broadcaster, w)
                       ELSE Wait([broadcaster EXCEPT !.conn[w] = "unreg_wait"], w))

\* the waiting unregister gets the lock
UnregisterResume(w) ==
    /\ broadcaster.conn[w] = "unreg_wait"
    /\ broadcaster.holder = w
    /\ BroadcasterStep(Release(Discarded(broadcaster, w)))

\* get-live-data.py:127-131: broadcast returns at once without clients,
\* otherwise takes the lock or waits for it
BroadcastStart(b) ==
    /\ broadcaster.task[b].pc = "idle"
    /\ LET bc == [broadcaster EXCEPT !.task[b].gone = broadcaster.unregistered]
       IN  IF bc.clients = {} THEN BroadcasterStep([bc EXCEPT !.task[b].pc = "done"])
           ELSE IF LockFree(bc)
                THEN \E order \in Orders(bc.clients) :
                        BroadcasterStep(Begun([bc EXCEPT !.holder = b], b, order))
                ELSE BroadcasterStep(Wait([bc EXCEPT !.task[b].pc = "waiting"], b))

\* the waiting broadcast gets the lock
BroadcastResume(b) ==
    /\ broadcaster.task[b].pc = "waiting"
    /\ broadcaster.holder = b
    /\ \E order \in Orders(broadcaster.clients) :
          BroadcasterStep(Begun(broadcaster, b, order))

\* get-live-data.py:132-137: the awaited send to the next client of the
\* snapshot succeeds or raises; after the last one the dead clients are
\* discarded and the lock released
BroadcastSend(b) ==
    /\ broadcaster.task[b].pc = "sending"
    /\ broadcaster.holder = b
    /\ \E ok \in BOOLEAN :
          LET t == broadcaster.task[b]
              w == Head(t.todo)
              sent == [broadcaster EXCEPT
                          !.task[b].todo = Tail(@),
                          !.task[b].sent[w] = @ + 1,
                          !.task[b].succeeded = IF ok THEN @ \cup {w} ELSE @,
                          !.task[b].to_remove = IF ok THEN @ ELSE @ \cup {w},
                          !.failed = IF ok THEN @ ELSE @ \cup {w}]
          IN  BroadcasterStep(
                 IF sent.task[b].todo # <<>> THEN sent
                 ELSE Release([sent EXCEPT
                         !.task[b].pc = "done",
                         !.clients = AfterSends(@, sent.task[b].to_remove)]))

BroadcasterInit ==
    /\ WorkerInit
    /\ now = MARKET_OPEN
    /\ broadcaster = BroadcasterNew
    /\ runner = Idle
    /\ retrier = Idle
    /\ app = Idle
    /\ trigger = Idle

BroadcasterNext ==
    \/ \E w \in Sockets :
          Register(w) \/ RegisterResume(w) \/ Unregister(w) \/ UnregisterResume(w)
    \/ \E b \in Broadcasts :
          BroadcastStart(b) \/ BroadcastResume(b) \/ BroadcastSend(b)

\* Connections coming and going while snapshots are broadcast
BroadcasterSpec == BroadcasterInit /\ [][BroadcasterNext]_vars

(***************************************************************************)
(* app.py: the dedicated server's start-up                                 *)
(***************************************************************************)

\* the processes lsof can list on the port
Pids == {"101", "102"}

\* what `lsof -ti :port` gives: PIDs, empty output, or a non-zero exit
\* (CalledProcessError)
LsofResults ==
    {[kind |-> "pids", pids |-> P] : P \in (SUBSET Pids) \ {{}}}
       \cup {[kind |-> "empty", pids |-> {}], [kind |-> "error", pids |-> {}]}

\* a line typed at the prompt, as its characters
Answers ==
    {<<"y", "e", "s">>, <<"Y", "E", "S">>, <<" ", "y", "e", "s", " ">>,
     <<"y">>, <<"n", "o">>, <<>>, <<"y", "e", "s", "!">>}

RECURSIVE LStrip(_)
LStrip(a) == IF a # <<>> /\ Head(a) = " " THEN LStrip(Tail(a)) ELSE a

RECURSIVE RStrip(_)
RStrip(a) ==
    IF a # <<>> /\ a[Len(a)] = " " THEN RStrip(SubSeq(a, 1, Len(a) - 1)) ELSE a

\* str.strip()
Strip(a) == RStrip(LStrip(a))

\* str.lower() on the characters that occur
Lower(a) ==
    [i \in DOMAIN a |-> CASE a[i] = "Y" -> "y" [] a[i] = "E" -> "e"
                          [] a[i] = "S" -> "s" [] OTHER -> a[i]]

\* app.py:76-78 accepting any answer that starts with y
Confirmed_Prefix(ans) == ans # <<>> /\ Head(Lower(Strip(ans))) = "y"

\* app.py:76-78: ans = input(...).strip().lower(); ans != "yes" declines
Confirmed(ans) == Lower(Strip(ans)) = <<"y", "e", "s">>

\* app.py:200-207: main is started; lsof's output and the user's line are
\* what the run will meet
AppCalled(lsof, answer) ==
    [pc |-> "main", lsof |-> lsof, answer |-> answer, asked |-> FALSE,
     to_kill |-> {}, killed |-> {}, ok |-> "unset",
     flask |-> FALSE, worker |-> FALSE, tunnel |-> FALSE]

AppStep(next) ==
    /\ app' = next
    /\ UNCHANGED <<worker_state, runner, retrier, broadcaster, trigger>>

\* app.py:63-75, 92-94: lsof is run; without PIDs the port is free and True
\* is returned, otherwise the user is asked
AppProbe ==
    /\ app.pc = "main"
    /\ AppStep(IF app.lsof.kind = "pids"
               THEN [app EXCEPT !.pc = "prompt"]
               ELSE [app EXCEPT !.pc = "start_flask", !.ok = "True"])

\* app.py:76-80, 208-210: the answer is read; unless it is yes False is
\* returned and main returns
AppAnswer ==
    /\ app.pc = "prompt"
    /\ AppStep(IF Confirmed(app.answer)
               THEN [app EXCEPT !.pc = "killing", !.asked = TRUE, !.to_kill = app.lsof.pids]
               ELSE [app EXCEPT !.pc = "aborted", !.asked = TRUE, !.ok = "False"])

\* app.py:82-90: SIGKILL is sent to each PID, a failure being printed; then
\* True is returned
AppKill ==
    /\ app.pc = "killing"
    /\ IF app.to_kill = {}
       THEN AppStep([app EXCEPT !.pc = "start_flask", !.ok = "True"])
       ELSE \E pid \in app.to_kill, done \in BOOLEAN :
               AppStep([app EXCEPT !.to_kill = @ \ {pid},
                                   !.killed = IF done THEN @ \cup {pid} ELSE @])

\* app.py:215-220
AppStartFlask ==
    /\ app.pc = "start_flask"
    /\ AppStep([app EXCEPT !.pc = "start_worker", !.flask = TRUE])

\* app.py:225-230
AppStartWorker ==
    /\ app.pc = "start_worker"
    /\ AppStep([app EXCEPT !.pc = "start_tunnel", !.worker = TRUE])

\* app.py:235-241
AppStartTunnel ==
    /\ app.pc = "start_tunnel"
    /\ AppStep([app EXCEPT !.pc = "serving", !.tunnel = TRUE])

AppInit ==
    /\ WorkerInit
    /\ now = MARKET_OPEN
    /\ \E lsof \in LsofResults, answer \in Answers : app = AppCalled(lsof, answer)
    /\ runner = Idle
    /\ retrier = Idle
    /\ broadcaster = Idle
    /\ trigger = Idle

AppNext ==
    AppProbe \/ AppAnswer \/ AppKill \/ AppStartFlask \/ AppStartWorker \/ AppStartTunnel

\* One start of the dedicated server
AppSpec == AppInit /\ [][AppNext]_vars

(***************************************************************************)
(* trade_trigger.py: the order request with its notification               *)
(***************************************************************************)

\* trade_trigger.py:25: the exchange segment is put before an instrument
\* that does not name it
Instrument(instrument) ==
    IF instrument.segment = "NSE_EQ" THEN instrument
    ELSE [instrument EXCEPT !.segment = "NSE_EQ"]

\* the instruments a caller passes: an ISIN, bare or with its segment
Instruments == [segment : {"", "NSE_EQ"}, isin : companies]

\* what the order backend's answer can be: success with the order's id,
\* success without an id, an error reply, JSON that is no object, a body
\* that is no JSON, no connection, a timeout
GttReplies ==
    {"placed", "placed_no_id", "error", "not_object", "not_json", "network", "timeout"}

\* trade_trigger.py:7-33: the call with its arguments and the payload built
TriggerCalled(instrument, sym, qty, side, reply) ==
    [pc |-> "called", reply |-> reply,
     payload |-> [instrument |-> Instrument(instrument), symbol_key |-> sym,
                  qty |-> qty, transaction_type |-> side, product |-> "I"],
     requests |-> <<>>, notices |-> <<>>, result |-> "unset"]

\* the id the backend gives the order of a symbol
GttId(sym) == <<"gtt", sym>>

TriggerStep(next) ==
    /\ trigger' = next
    /\ UNCHANGED <<worker_state, runner, retrier, broadcaster, app>>

\* trade_trigger.py:35-47, 64: the request is posted and its answer read;
\* an exception of requests.post, of r.json(), of res.get or of
\* res["gtt_id"] goes to the except clause
TriggerRequest ==
    /\ trigger.pc = "called"
    /\ TriggerStep([trigger EXCEPT
           !.requests = Append(@, trigger.payload),
           !.pc = CASE trigger.reply = "placed" -> "notify_placed"
                    [] trigger.reply = "error" -> "notify_failed"
                    [] OTHER -> "except"])

\* trade_trigger.py:50-75: send_message for the outcome, inside the try: it
\* returns, and the function returns the id or None, or it raises, which
\* the except clause of the same try catches
TriggerNotify ==
    /\ trigger.pc \in {"notify_placed", "notify_failed"}
    /\ \E send_ok \in BOOLEAN :
          LET kind == IF trigger.pc = "notify_placed" THEN "GTT_PLACED" ELSE "GTT_FAILED"
              told == [trigger EXCEPT
                          !.notices = Append(@, [kind |-> kind, delivered |-> send_ok])]
          IN  TriggerStep(
                 IF ~send_ok THEN [told EXCEPT !.pc = "except"]
                 ELSE [told EXCEPT !.pc = "returned",
                                   !.result = IF trigger.pc = "notify_placed"
                                              THEN GttId(trigger.payload.symbol_key)
                                              ELSE "None"])

\* trade_trigger.py:80-89: the except clause: send_message for the error,
\* outside any try, then return None
TriggerExcept ==
    /\ trigger.pc = "except"
    /\ \E send_ok \in BOOLEAN :
          LET told == [trigger EXCEPT
                          !.notices = Append(@, [kind |-> "GTT_API_ERROR",
                                                 delivered |-> send_ok])]
          IN  TriggerStep(IF send_ok THEN [told EXCEPT !.pc = "returned", !.result = "None"]
                          ELSE [told EXCEPT !.pc = "raised"])

TriggerInit ==
    /\ WorkerInit
    /\ now = MARKET_OPEN
    /\ \E instrument \in Instruments, qty \in {1, 2}, side \in {"BUY", "SELL"},
          reply \in GttReplies :
          trigger = TriggerCalled(instrument, instrument.isin, qty, side, reply)
    /\ runner = Idle
    /\ retrier = Idle
    /\ broadcaster = Idle
    /\ app = Idle

TriggerNext == TriggerRequest \/ TriggerNotify \/ TriggerExcept

\* One call of trade_trigger.trigger_gtt_trade
TriggerSpec == TriggerInit /\ [][TriggerNext]_vars

(* Properties *)

\* The phase of a symbol: PENDING while it is not in live_alerted, ENTERED
\* while it has an entry in live_trades, EXITED once it is in live_alerted
\* with no entry in live_trades.
PhaseOf(alerted, trades, s) ==
    IF s \notin alerted THEN "PENDING"
    ELSE IF s \in DOMAIN trades THEN "ENTERED"
    ELSE "EXITED"

Phase(s) == PhaseOf(live_alerted, live_trades, s)

PhaseNext(s) == PhaseOf(live_alerted', live_trades', s)

Rank(p) == IF p = "PENDING" THEN 0 ELSE IF p = "ENTERED" THEN 1 ELSE 2

Types(seq) == [i \in DOMAIN seq |-> seq[i].type]

Has(seq, type) == \E i \in DOMAIN seq : seq[i].type = type

\* The ENTRY messages sent for a symbol on a day
EntriesOn(s, d) ==
    {i \in DOMAIN events[s] : events[s][i].type = "ENTRY" /\ events[s][i].day = d}

\* C1: in one run of the process the phase of every symbol never moves
\* backwards, and a symbol that goes from PENDING to EXITED within one cycle
\* passed through ENTERED in it (the cycle sent its ENTRY and then its exit).
C1_PhaseMonotonic ==
    [][\A s \in companies :
          /\ Rank(PhaseNext(s)) >= Rank(Phase(s))
          /\ (Phase(s) = "PENDING" /\ PhaseNext(s) = "EXITED"
                => /\ Len(emitted'[s]) = 2
                   /\ emitted'[s][1].type = "ENTRY"
                   /\ emitted'[s][2].type \in {"TARGET_HIT", "SL_HIT"})]_vars

\* C1 witness: a symbol that was ENTERED when a cycle began has been taken to
\* EXITED by that cycle.
C1_Witness ==
    /\ Phase("A") = "EXITED"
    /\ Types(emitted["A"]) = <<"SL_HIT">>

\* C2: whatever restarts happen, no symbol gets a second ENTRY message or a
\* second order request on one trading day.
C2_NoSecondEntryAfterRestart ==
    \A s \in companies : \A d \in 1..day :
        /\ Cardinality({i \in DOMAIN events[s] :
                           events[s][i].type = "ENTRY" /\ events[s][i].day = d}) <= 1
        /\ Cardinality({i \in DOMAIN orders[s] : orders[s][i].day = d}) <= 1

\* C2 witness: after a restart that followed today's ENTRY of "A", with cold
\* start done, a cycle inside the entry hours has applied a price to "A"
\* (which the restarted process holds as PENDING) and has not entered it.
C2_Witness ==
    /\ restarts >= 1
    /\ cold_start_done
    /\ \E i \in DOMAIN events["A"] :
          events["A"][i].type = "ENTRY" /\ events["A"][i].day = day
    /\ \E i \in DOMAIN orders["A"] : orders["A"][i].day = day
    /\ "A" \in DOMAIN applied
    /\ DAY_HIGH_END <= now /\ now <= LIVE_BUY_END
    /\ Phase("A") = "PENDING"

\* C3: once a symbol is EXITED, no later cycle of the run changes its phase,
\* sends a further trade message for it or places an order for it.
C3_ExitedIsTerminal ==
    [][\A s \in companies :
          Phase(s) = "EXITED"
            => /\ PhaseNext(s) = "EXITED"
               /\ events'[s] = events[s]
               /\ orders'[s] = orders[s]]_vars

\* C3 witness: a cycle inside the entry hours has applied to the EXITED
\* symbol "A" a price that meets the buy test, and has sent nothing for it.
C3_Witness ==
    /\ Phase("A") = "EXITED"
    /\ "A" \in DOMAIN applied
    /\ DAY_HIGH_END <= now /\ now <= LIVE_BUY_END
    /\ applied["A"][5] * 100 <= day_highs["A"] * 103
    /\ emitted["A"] = <<>>

C5_EntryOnlyInsideWindow ==
    [][\A s \in companies :
          Phase(s) = "PENDING" /\ ~(LIVE_BUY_START <= now' /\ now' <= LIVE_BUY_END)
            => /\ PhaseNext(s) = "PENDING"
               /\ events'[s] = events[s]
               /\ orders'[s] = orders[s]]_vars

\* C5 witness: a cycle after the window has applied to the PENDING symbol "A",
\* which has a day high, a price that meets the price test of the buy trigger.
C5_Witness ==
    /\ now > LIVE_BUY_END
    /\ "A" \in DOMAIN applied
    /\ "A" \in DOMAIN day_highs
    /\ applied["A"][5] * 100 <= day_highs["A"] * 103
    /\ Phase("A") = "PENDING"

\* C6: for a symbol with an open trade the target is tested first: a
\* TARGET_HIT is sent exactly when the price is at or above the target, also
\* when the price is at or below the stoploss as well; a STOPLOSS_HIT is sent
\* only when the price is below the target and at or below the stoploss; and
\* a trade stays open only when the price is strictly between the two.
C6_TargetBeforeStoploss ==
    \A s \in DOMAIN applied :
        LET ltp == applied[s][5] IN
        /\ \A i \in DOMAIN emitted[s] :
              /\ emitted[s][i].type = "TARGET_HIT" => ltp >= emitted[s][i].target
              /\ emitted[s][i].type = "SL_HIT"
                    => ltp < emitted[s][i].target /\ ltp <= emitted[s][i].sl
        /\ (s \in DOMAIN live_trades /\ now >= DAY_HIGH_END
              => ltp < live_trades[s].target /\ ltp > live_trades[s].sl)

\* C6 witness: a price that met the target test and the stoploss test at once
\* was answered with TARGET_HIT.
C6_Witness ==
    \E i \in DOMAIN emitted["A"] :
        /\ emitted["A"][i].type = "TARGET_HIT"
        /\ emitted["A"][i].ltp >= emitted["A"][i].target
        /\ emitted["A"][i].ltp <= emitted["A"][i].sl

\* C7 (as claimed): fed 95, 98, 100, 103, 107 the loop sends ENTRY at the
\* price 100 and TARGET_HIT at the price 107 and nothing else, and ends EXITED
\* by the target.
C7_ScenarioTarget ==
    feed.name = "target" =>
        /\ \A i \in DOMAIN emitted["A"] :
              /\ emitted["A"][i].type = "ENTRY" => emitted["A"][i].ltp = 10000
              /\ emitted["A"][i].type = "TARGET_HIT" => emitted["A"][i].ltp = 10700
              /\ emitted["A"][i].type # "SL_HIT"
        /\ (feed.rest = <<>>
              => /\ Types(events["A"]) = <<"ENTRY", "TARGET_HIT">>
                 /\ Phase("A") = "EXITED"
                 /\ stats.target_hit = 1 /\ stats.sl_hit = 0)

\* C8 (as claimed): fed 100, 99 the loop sends ENTRY at the first price and
\* STOPLOSS_HIT at the second and nothing else, and ends EXITED by the stoploss.
C8_ScenarioStoploss ==
    feed.name = "stoploss" =>
        /\ \A i \in DOMAIN emitted["A"] :
              /\ emitted["A"][i].type = "ENTRY" => emitted["A"][i].ltp = 10000
              /\ emitted["A"][i].type = "SL_HIT" => emitted["A"][i].ltp = 9900
              /\ emitted["A"][i].type # "TARGET_HIT"
        /\ (feed.rest = <<>>
              => /\ Types(events["A"]) = <<"ENTRY", "SL_HIT">>
                 /\ Phase("A") = "EXITED"
                 /\ stats.sl_hit = 1 /\ stats.target_hit = 0)

C10_FetchedPricesApplied ==
    is_market_time(now) => fetched \subseteq DOMAIN applied

\* C11: when a fan-out has returned, its result list has exactly one result
\* per requested symbol, in the order of the symbols; each result is the pair
\* of its own symbol and that symbol's data (or None), or the exception its
\* task raised; whatever mix of data, empty replies and failures occurred.
C11_OneResultPerSymbol ==
    fan = NoFan =>
        /\ Len(candles) = Len(symbols)
        /\ \A i \in DOMAIN candles :
              \/ candles[i].kind = "exception"
              \/ candles[i].kind = "tuple" /\ candles[i].items[1] = symbols[i]

\* C11 witness: a fan-out over three symbols in which every fetch failed has
\* returned three results, each (symbol, None).
C11_Witness ==
    /\ fan = NoFan
    /\ Len(symbols) = 3
    /\ candles = [i \in 1..3 |-> PyTuple(<<symbols[i], None>>)]

\* C12 (as claimed): never more than CONCURRENCY requests are in flight, and
\* every request in flight holds a permit of the semaphore.
C12_CapBySemaphore ==
    /\ Cardinality(InFlight) <= CONCURRENCY
    /\ InFlight \subseteq Permits

\* C12 (amended): never more than CONCURRENCY requests are in flight.  In the
\* fan-out of the live loop the limit of the session's connector enforces it
\* and no semaphore is involved; in fetch_batch of test_runner.py every
\* request, waiting or in flight, holds one of the CONCURRENCY permits.
C12_CapByConnector ==
    /\ Cardinality(InFlight) <= CONCURRENCY
    /\ Cardinality(Permits) <= CONCURRENCY
    /\ fan.caller = "worker" => Permits = {}
    /\ fan.caller = "test_runner" =>
          \A s \in DOMAIN fan.tasks :
              fan.tasks[s].st \in {"waiting", "inflight"} => s \in Permits

\* C12 witness: in a fan-out of the live loop over three symbols CONCURRENCY
\* requests are in flight and a third is kept waiting.
C12_Witness ==
    /\ fan.caller = "worker"
    /\ Cardinality(InFlight) = CONCURRENCY
    /\ \E s \in DOMAIN fan.tasks : fan.tasks[s].st = "waiting"

\* C13 (as claimed): a fetch that has ended in failure was attempted
\* MAX_RETRIES times.
C13_RetriedUpToMax ==
    \A s \in DOMAIN fan.tasks :
        fan.tasks[s].st = "done" /\ fan.tasks[s].failed
            => fan.tasks[s].attempts = MAX_RETRIES

\* C14: in every cycle each requested symbol has its own result in the
\* gathered list, a failed or raising fetch being a result without data (None
\* or the exception as a value); and every symbol whose result is a usable
\* candle has that candle applied in this cycle, wherever in the list the
\* failures are.
C14_FailureIsolated ==
    /\ Len(candles) = Len(symbols)
    /\ \A i \in DOMAIN candles :
          /\ candles[i].kind \in {"none", "exception", "list", "tuple"}
          /\ CandleUsable(candles[i])
                => /\ symbols[i] \in DOMAIN applied
                   /\ applied[symbols[i]] = candles[i].items
          /\ ~CandleUsable(candles[i]) => symbols[i] \notin DOMAIN applied

\* C14 witness: the fetch of the first symbol raised, and the candle of the
\* second, which comes after it in the loop, has been applied.
C14_Witness ==
    /\ Len(symbols) = 2
    /\ candles[1] = PyException
    /\ symbols[2] \in DOMAIN applied

ColdReported ==
    UNION {m.rows : m \in {m \in cold_sent :
                              m.kind \in {"TARGET HIT", "STOPLOSS HIT", "ENTERED"}}}

\* C16 (as claimed): once cold start has completed after a start in market
\* hours, no symbol whose history had crossed its entry, target or stoploss
\* level is PENDING in the live trade state.
C16_HistoryNotPending ==
    cold_start_done /\ is_market_time(now) =>
        \A s \in ColdReported : Phase(s) # "PENDING"

\* C17 (as claimed): cold start sends the notifier no message about a trade
\* that entered, hit its target or hit its stoploss before the process
\* started.
C17_SilentReplay ==
    {m \in cold_sent : m.rows # {}} = {}

C19_TickNotBlocked ==
    cold_pc = "running" =>
        /\ is_market_time(now) => ENABLED TickOpen
        /\ ~is_market_time(now) => ENABLED TickClosed

\* C19 witness: cold start began before the session opened and is still in
\* progress, and a cycle over a symbol has completed since the clock moved
\* into market hours.
C19_Witness ==
    /\ cold_pc = "running"
    /\ ColdMsg("MARKET_CLOSED", {}) \in cold_sent
    /\ is_market_time(now)
    /\ symbols # <<>>
    /\ Len(candles) = Len(symbols)

\* C20: an exception raised inside a cycle is caught at the loop boundary:
\* the loop never terminates; a cycle whose body raised on a quote leaves the
\* loop in the error back-off with the candles of the symbols before that
\* quote applied and kept; and from the back-off the loop starts another
\* cycle.
C20_CycleFailureCaught ==
    /\ loop_pc # "stopped"
    /\ FirstRaising(candles) # 0 =>
          /\ loop_pc = "error_sleep"
          /\ \A i \in 1..(FirstRaising(candles) - 1) :
                CandleUsable(candles[i]) =>
                    /\ symbols[i] \in DOMAIN applied
                    /\ applied[symbols[i]] = candles[i].items
          /\ \A i \in FirstRaising(candles)..Len(symbols) :
                symbols[i] \notin DOMAIN applied
    /\ loop_pc = "error_sleep" /\ is_market_time(now) => ENABLED ErrorTick

\* C20 witness: a cycle over two symbols raised on the second one's quote
\* after the first one's candle had been applied and its trade entered; the
\* loop is in the error back-off.
C20_Witness ==
    /\ loop_pc = "error_sleep"
    /\ Len(symbols) = 2
    /\ FirstRaising(candles) = 2
    /\ symbols[1] \in DOMAIN applied
    /\ Has(emitted[symbols[1]], "ENTRY")

\* C21 (as claimed): a failure of the cold-start task does not stop the live
\* loop: after it the loop still gets to run its next iteration.
C21_ColdStartFailureContained ==
    cold_pc = "failed" =>
        /\ loop_pc # "stopped"
        /\ is_market_time(now) => ENABLED TickOpen
        /\ ~is_market_time(now) => ENABLED TickClosed

\* C22: an iteration of the live loop at an instant at which the session is
\* closed queries no signals (symbols, the qty cache), fetches no quote
\* (candles, fetched), changes no trade state or counter, sends no trade
\* message and places no order; it leaves the loop running.
C22_ClosedTickOnlySleeps ==
    [][(now < MARKET_OPEN \/ now > MARKET_CLOSE) /\ now' = now /\ day' = day
          => /\ UNCHANGED <<symbols, symbol_to_qty, candles, fetched, applied>>
             /\ UNCHANGED <<live_alerted, live_trades, day_highs, stats, symbol_to_isin>>
             /\ UNCHANGED <<emitted, events, orders, notices>>
             /\ loop_pc' = "run"]_vars

\* C22 witness: the session is closed, the loop runs, no cycle has been run
\* at this instant, and the trade state holds a day high, an alerted symbol
\* and a count of entries that an iteration could have touched.
C22_Witness ==
    /\ (now < MARKET_OPEN \/ now > MARKET_CLOSE)
    /\ loop_pc = "run"
    /\ symbols = <<>>
    /\ live_alerted # {}
    /\ DOMAIN day_highs # {}
    /\ stats.entered > 0

\* C23 (as claimed): the session-open check of the live loop is false on
\* Saturday and Sunday at every time of day, and on a weekday it is true
\* exactly from market open to market close, both included.
C23_SessionOpenCheck ==
    /\ IsWeekend(day) => ~is_market_time(now)
    /\ ~IsWeekend(day) => (is_market_time(now) <=> (MARKET_OPEN <= now /\ now <= MARKET_CLOSE))

\* The messages of one kind sent about the order of a symbol
NoticesOf(s, kind) == {i \in DOMAIN notices[s] : notices[s][i].kind = kind}

\* The requests made to the order service for a symbol on a day
OrdersOn(s, d) == {i \in DOMAIN orders[s] : orders[s][i].day = d}

\* The ENTRY messages sent for a symbol
Entries(s) == {i \in DOMAIN events[s] : events[s][i].type = "ENTRY"}

FailureNotices == {"GTT_FAILED", "GTT_API_ERROR", "ISIN_NOT_FOUND"}

\* The ENTRY messages of the current cycle for a symbol
EntriesNow(s) == {i \in DOMAIN emitted[s] : emitted[s][i].type = "ENTRY"}

\* The number of ENTRY messages sent so far, all symbols together
EntryCount == Cardinality(UNION {{<<s, i>> : i \in Entries(s)} : s \in companies})

\* The symbols of the current cycle whose result the loop body's guard accepts
Usable == {symbols[i] : i \in {j \in DOMAIN symbols : j <= Len(candles) /\ CandleUsable(candles[j])}}

\* C25: after a cycle in which a symbol entered and its order was not placed
\* (error reply, exception of the request, or no ISIN), the symbol is in
\* live_alerted, the entry is counted, the failure has been reported by a
\* message, the exit check of the same cycle has run on the entry price
\* (the trade is open with the levels of the ENTRY message, or its exit
\* message follows the ENTRY message), every symbol with a usable result has
\* been processed and the loop goes on.
C25_FailedOrderKeepsEntry ==
    \A s \in companies :
        EntriesNow(s) # {} /\ NoticesOf(s, "GTT_PLACED") = {}
          => LET e == emitted[s][CHOOSE i \in EntriesNow(s) : TRUE]
             IN  /\ s \in live_alerted
                 /\ stats.entered = EntryCount
                 /\ \E k \in FailureNotices : NoticesOf(s, k) # {}
                 /\ IF e.ltp >= e.target
                      THEN Has(emitted[s], "TARGET_HIT") /\ s \notin DOMAIN live_trades
                    ELSE IF e.ltp <= e.sl
                      THEN Has(emitted[s], "SL_HIT") /\ s \notin DOMAIN live_trades
                    ELSE /\ s \in DOMAIN live_trades
                         /\ live_trades[s] = [target |-> e.target, sl |-> e.sl]
                 /\ Usable \subseteq DOMAIN applied
                 /\ loop_pc = "run"

\* The request for the first symbol of a cycle raised; its trade is open and
\* the second symbol of the cycle has been processed after it
C25_Witness ==
    /\ EntriesNow("A") # {}
    /\ NoticesOf("A", "GTT_API_ERROR") # {}
    /\ "A" \in DOMAIN live_trades
    /\ symbols = <<"A", "B">>
    /\ "B" \in DOMAIN applied
    /\ stats.entered > 0

\* The messages of the current cycle for a symbol that the notifier failed
\* to deliver
Undelivered(s) == {i \in DOMAIN emitted[s] : ~emitted[s][i].delivered}

\* The exit messages sent so far, all symbols together
ExitCount(type) ==
    Cardinality(UNION {{<<s, i>> : i \in {j \in DOMAIN events[s] : events[s][j].type = type}}
                       : s \in companies})

\* C26: after a cycle in which the notifier failed on an ENTRY, TARGET_HIT or
\* SL_HIT message of a symbol, the loop is running (the failure did not leave
\* safe_send_message), the transition of the message is applied (an entered
\* symbol is in live_alerted, with its trade open at the levels of the
\* message unless its exit message follows; an exited symbol is in
\* live_alerted with no open trade; the counters count every message), and
\* every symbol of the cycle with a usable result has been processed.
C26_NotifierFailureSwallowed ==
    \A s \in companies : \A i \in Undelivered(s) :
        LET e == emitted[s][i]
        IN  /\ loop_pc = "run"
            /\ s \in live_alerted
            /\ e.type = "ENTRY" =>
                  IF i < Len(emitted[s])
                    THEN emitted[s][i + 1].type \in {"TARGET_HIT", "SL_HIT"}
                         /\ s \notin DOMAIN live_trades
                    ELSE s \in DOMAIN live_trades
                         /\ live_trades[s] = [target |-> e.target, sl |-> e.sl]
            /\ e.type \in {"TARGET_HIT", "SL_HIT"} => s \notin DOMAIN live_trades
            /\ stats.entered = EntryCount
            /\ stats.target_hit = ExitCount("TARGET_HIT")
            /\ stats.sl_hit = ExitCount("SL_HIT")
            /\ Usable \subseteq DOMAIN applied

\* The notifier failed in a cycle in which the first symbol hit its target
\* and the second symbol, processed after it, entered and hit its stoploss
C26_Witness ==
    /\ symbols = <<"A", "B">>
    /\ \E i \in Undelivered("A") : emitted["A"][i].type = "TARGET_HIT"
    /\ \E i \in Undelivered("B") : emitted["B"][i].type = "ENTRY"
    /\ \E i \in Undelivered("B") : emitted["B"][i].type = "SL_HIT"

\* C27: a call of fetch_today_signals whose request fails, or whose reply
\* reports no data, returns the empty list and does not raise; the iteration
\* of an open instant that made the call leaves the trade state, the caches,
\* the counters, the messages and the orders as they were, has no symbols and
\* no message of its own, and ends in the normal sleep.
C27_NoSignalsNoChange ==
    [][/\ \A reply \in SourceReplies :
             reply.kind \in {"failed", "not_found"}
               => fetch_today_signals(reply) = [raised |-> FALSE, signals |-> {}]
       /\ (source' \in {"failed", "not_found"} /\ now' = now /\ day' = day
              /\ MARKET_OPEN <= now /\ now <= MARKET_CLOSE)
            => /\ UNCHANGED <<live_alerted, live_trades, day_highs, stats>>
               /\ UNCHANGED <<symbol_to_isin, symbol_to_qty, events, orders, notices>>
               /\ symbols' = <<>>
               /\ emitted' = [s \in companies |-> <<>>]
               /\ loop_pc' = "run"]_vars

\* The request for the signals failed in a cycle of a run that has an open
\* trade, a counted entry and a cached quantity
C27_Witness ==
    /\ source = "failed"
    /\ MARKET_OPEN <= now /\ now <= MARKET_CLOSE
    /\ symbols = <<>>
    /\ loop_pc = "run"
    /\ live_trades # <<>>
    /\ stats.entered > 0
    /\ symbol_to_qty # <<>>

\* Whether a symbol is in the symbol list of the cycle a step runs
InCycleNext(s) == \E i \in DOMAIN symbols' : symbols'[i] = s

\* C28: an iteration leaves the state of every symbol that is not among its
\* signals as it was (membership of live_alerted, entry of live_trades, day
\* high), whatever the symbol's state; and a symbol the loop has not
\* processed yet is PENDING before and after the iteration in which it
\* first appears.
C28_AbsentSymbolKeepsState ==
    [][now' = now /\ day' = day
         => \A s \in companies :
              /\ ~InCycleNext(s)
                   => /\ (s \in live_alerted') <=> (s \in live_alerted)
                      /\ (s \in DOMAIN live_trades') <=> (s \in DOMAIN live_trades)
                      /\ s \in DOMAIN live_trades => live_trades'[s] = live_trades[s]
                      /\ (s \in DOMAIN day_highs') <=> (s \in DOMAIN day_highs)
                      /\ s \in DOMAIN day_highs => day_highs'[s] = day_highs[s]
              /\ s \notin DOMAIN day_highs /\ events[s] = <<>>
                   => Phase(s) = "PENDING" /\ PhaseNext(s) = "PENDING"]_vars

\* A cycle whose signals have B for the first time and no longer A, whose
\* trade is open
C28_Witness ==
    /\ symbols = <<"B">>
    /\ "B" \in DOMAIN applied
    /\ "B" \notin DOMAIN day_highs
    /\ events["B"] = <<>>
    /\ Phase("B") = "PENDING"
    /\ Phase("A") = "ENTERED"
    /\ "A" \in DOMAIN day_highs

C30_SingleWriter ==
    [][restarts' = restarts
         => /\ <<cold_pc, cold_sent, cold_start_done>>' # <<cold_pc, cold_sent, cold_start_done>>
                 => UNCHANGED <<live_alerted, live_trades, day_highs, stats,
                                symbol_to_isin, symbol_to_qty>>
            /\ <<live_alerted, live_trades, day_highs, stats, symbol_to_isin, symbol_to_qty>>'
                   # <<live_alerted, live_trades, day_highs, stats, symbol_to_isin, symbol_to_qty>>
                 => /\ now' = now /\ day' = day
                    /\ MARKET_OPEN <= now /\ now <= MARKET_CLOSE
                    /\ loop_pc # "stopped"
                    /\ symbols' # <<>>]_vars

\* The cold-start thread, started before the session opened, is still
\* running, and the live loop has meanwhile opened a trade, built a day high,
\* counted an entry and filled both caches
C30_Witness ==
    /\ cold_pc = "running"
    /\ \E msg \in cold_sent : msg.kind = "MARKET_CLOSED"
    /\ symbols # <<>>
    /\ live_trades # <<>>
    /\ day_highs # <<>>
    /\ stats.entered > 0
    /\ symbol_to_qty # <<>>
    /\ symbol_to_isin # {}

\* The day high of a symbol, 0 while none is recorded (day_highs.get(sym, 0))
DayHigh(highs, s) == IF s \in DOMAIN highs THEN highs[s] ELSE 0

\* The high price of a candle (timestamp, open, high, low, close, volume)
CandleHigh(c) == c[3]

MaxPrice(c) == Max2(Max2(c[2], c[3]), Max2(c[4], c[5]))

C34_TradesWithinAlertedWithinHighs ==
    /\ DOMAIN live_trades \subseteq live_alerted
    /\ live_alerted \subseteq DOMAIN day_highs

\* One symbol has an open trade, another has entered and exited, and both
\* have a day high
C34_Witness ==
    /\ DOMAIN live_trades = {"A"}
    /\ live_alerted = {"A", "B"}
    /\ DOMAIN day_highs = {"A", "B"}

\* The symbols that got an exit message of a kind
ExitedBy(type) == {s \in companies : Has(events[s], type)}

\* C35: between two iterations the counters agree with the trade state:
\* entered is the number of symbols in live_alerted, target_hit + sl_hit is
\* the number of symbols of live_alerted with no open trade, and every such
\* symbol is counted once, in target_hit if its exit was a target hit and in
\* sl_hit if it was a stoploss hit, never in both.
C35_CountersAgree ==
    /\ stats.entered = Cardinality(live_alerted)
    /\ stats.target_hit + stats.sl_hit = Cardinality(live_alerted \ DOMAIN live_trades)
    /\ stats.target_hit = Cardinality(ExitedBy("TARGET_HIT"))
    /\ stats.sl_hit = Cardinality(ExitedBy("SL_HIT"))
    /\ ExitedBy("TARGET_HIT") \cap ExitedBy("SL_HIT") = {}
    /\ ExitedBy("TARGET_HIT") \cup ExitedBy("SL_HIT") = live_alerted \ DOMAIN live_trades

\* One symbol has hit its target and the other its stoploss
C35_Witness ==
    /\ stats = [entered |-> 2, exited |-> 0, target_hit |-> 1, sl_hit |-> 1]
    /\ live_alerted = {"A", "B"}
    /\ live_trades = <<>>

\* The candles a returned key had in the result of its request
CandlesOf(k) == runner.results[k].items[2]

\* C31 as stated: the returned count is the number of keys of data, and
\* every key is a symbol of the date's signals that is in companies, is in
\* the filter when a filter is given, be it the empty list, and had a
\* non-empty list of candles.
C31_KeysFilteredWhenGiven ==
    runner.pc = "returned"
      => /\ runner.count = Cardinality(DOMAIN runner.data)
         /\ \A k \in DOMAIN runner.data :
               /\ runner.reply.kind = "found" /\ k \in runner.reply.data
               /\ k \in companies
               /\ runner.filter.given => k \in runner.filter.syms
               /\ CandlesOf(k).kind = "list" /\ Len(CandlesOf(k).items) > 0

\* C31 as the code has it: the returned count is the number of keys of data;
\* every key is a symbol of the date's signals that is in companies, is in
\* symbols_filter when the filter is a non-empty list, and whose request
\* returned candles that are not empty, which are its data; with no signals
\* or no eligible symbol the count is 0, data is empty and no request was
\* made.
C31_RunnerResult ==
    runner.pc = "returned"
      => /\ runner.count = Cardinality(DOMAIN runner.data)
         /\ \A k \in DOMAIN runner.data :
               /\ runner.reply.kind = "found" /\ k \in runner.reply.data
               /\ k \in companies
               /\ runner.filter.given /\ runner.filter.syms # {} => k \in runner.filter.syms
               /\ Truthy(CandlesOf(k))
               /\ runner.data[k] = CandlesOf(k)
         /\ \A k \in DOMAIN runner.results :
               Truthy(CandlesOf(k)) => k \in DOMAIN runner.data
         /\ (runner.reply.kind # "found"
               \/ Eligible(runner.reply.data, runner.filter) = {})
              => runner.count = 0 /\ runner.data = <<>> /\ runner.calls = 0
         /\ runner.calls = Len(runner.symbols)

\* A call with a filter returned one of two requested symbols, the other
\* having no candles
C31_Witness ==
    /\ runner.pc = "returned"
    /\ runner.filter = Filter(TRUE, {"B", "Z"})
    /\ runner.reply = Reply("found", {"A", "B"})
    /\ runner.count = 1
    /\ DOMAIN runner.data = {"B"}


\* the failures among the calls made so far
Failures(r) == Cardinality({i \in DOMAIN r.outcomes : ~r.outcomes[i]})

\* C36: fetch_with_retries ends, after at most max_retries calls of
\* fetch_single_symbol; it returns the record of its first successful call,
\* which is its last call; it has slept base_backoff * 2^(k-1) after the
\* k-th failure exactly when that failure was not the max_retries-th; and
\* when all max_retries calls fail it returns None.
C36_RetriesBounded ==
    /\ [](LET r == retrier
              n == Len(r.outcomes)
          IN  /\ n <= r.max_retries
              /\ \A i \in 1..(n - 1) : ~r.outcomes[i]
              /\ r.pc \in {"loop", "failed", "returned"}
              /\ r.pc \in {"loop", "returned"}
                    => /\ Len(r.sleeps) = Cardinality({k \in 1..Failures(r) : k < r.max_retries})
                       /\ \A k \in DOMAIN r.sleeps : r.sleeps[k] = r.base_backoff * Pow2(k - 1)
              /\ r.pc = "returned"
                    => IF n > 0 /\ r.outcomes[n]
                       THEN r.result = SymbolRecord(r.symbol, n)
                       ELSE r.result = [kind |-> "None"] /\ n = r.max_retries)
    /\ <>(retrier.pc = "returned")

\* C36 witness: the default call has failed twice, slept 1 and 2, and got
\* its record from the third call
C36_Witness ==
    /\ retrier.pc = "returned"
    /\ retrier.variant = "live"
    /\ retrier.max_retries = 3 /\ retrier.base_backoff = 1
    /\ retrier.outcomes = <<FALSE, FALSE, TRUE>>
    /\ retrier.sleeps = <<1, 2>>
    /\ retrier.result = SymbolRecord(retrier.symbol, 3)

\* the broadcast that holds the lock, if any
Sending == {b \in Broadcasts : broadcaster.task[b].pc = "sending"}

\* C37: whenever no broadcast is under way the client set is exactly the
\* clients that registered and have neither unregistered nor failed a send
\* (during a broadcast it may only hold, besides these, clients whose send
\* failed in that broadcast); a broadcast sends at most once to each client
\* and never to one whose unregister completed before it started; and the
\* step that ends a broadcast leaves the clients whose send succeeded in the
\* set and those whose send failed out of it.
C37_ClientSetConsistent ==
    /\ [](LET bc == broadcaster
              live == bc.registered \ (bc.unregistered \cup bc.failed)
          IN  /\ Sending = {} => bc.clients = live
              /\ live \subseteq bc.clients
              /\ bc.clients \subseteq
                    live \cup UNION {bc.task[b].to_remove : b \in Sending}
              /\ \A b \in Broadcasts, w \in Sockets :
                    /\ bc.task[b].sent[w] <= 1
                    /\ w \in bc.task[b].gone => bc.task[b].sent[w] = 0)
    /\ [][\A b \in Broadcasts :
             broadcaster.task[b].pc = "sending" /\ broadcaster'.task[b].pc = "done"
                => /\ broadcaster'.task[b].succeeded \subseteq broadcaster'.clients
                   /\ broadcaster'.task[b].to_remove \cap broadcaster'.clients = {}]_vars

\* C37 witness: a broadcast has ended in which the send to w1 failed and the
\* send to w2 succeeded, while w1's unregister waited for the lock; a later
\* broadcast has sent to w2 only
C37_Witness ==
    /\ broadcaster.task["b1"].pc = "done"
    /\ broadcaster.task["b1"].to_remove = {"w1"}
    /\ broadcaster.task["b1"].succeeded = {"w2"}
    /\ broadcaster.conn["w1"] = "closed"
    /\ broadcaster.task["b2"].pc = "done"
    /\ broadcaster.task["b2"].gone = {"w1"}
    /\ broadcaster.task["b2"].sent = [w \in Sockets |-> IF w = "w2" THEN 1 ELSE 0]
    /\ broadcaster.clients = {"w2"}

\* nothing was killed and nothing started
NothingDone ==
    app.killed = {} /\ app.to_kill = {} /\ ~app.flask /\ ~app.worker /\ ~app.tunnel

\* C38 as stated: with the port in use and an answer other than the three
\* characters yes, no process is killed, False is returned and main starts
\* nothing; a process is killed only after the answer yes.
C38_OnlyLiteralYesKills ==
    /\ app.lsof.kind = "pids" /\ app.asked /\ app.answer # <<"y", "e", "s">>
          => app.ok = "False" /\ NothingDone
    /\ app.killed # {} => app.asked /\ app.answer = <<"y", "e", "s">>

\* C38: with the port in use and an answer that, stripped of surrounding
\* blanks and lower-cased, is not yes, no process is killed, False is
\* returned and main starts neither the Flask thread, the worker thread nor
\* the tunnel; before the answer nothing is killed or started, and a process
\* is killed only after an answer that is yes in that sense.
C38_DeclinedStartsNothing ==
    /\ app.lsof.kind = "pids" /\ app.asked /\ Lower(Strip(app.answer)) # <<"y", "e", "s">>
          => app.ok = "False" /\ app.pc = "aborted" /\ NothingDone
    /\ app.lsof.kind = "pids" /\ ~app.asked => app.ok = "unset" /\ NothingDone
    /\ app.killed # {}
          => app.asked /\ Lower(Strip(app.answer)) = <<"y", "e", "s">>
                /\ app.killed \subseteq app.lsof.pids

\* C38 witness: two processes hold the port, the user answered no, and main
\* has returned without killing or starting anything
C38_Witness ==
    /\ app.lsof = [kind |-> "pids", pids |-> Pids]
    /\ app.answer = <<"n", "o">>
    /\ app.asked
    /\ app.pc = "aborted"
    /\ app.ok = "False"
    /\ NothingDone

\* C39: trade_trigger.trigger_gtt_trade never raises; it makes one order
\* request per call; it returns the order's id when the backend reported
\* success and None in every other case, a failed notification included.
C39_TriggerNeverRaises ==
    /\ trigger.pc # "raised"
    /\ Len(trigger.requests) <= 1
    /\ trigger.pc = "returned"
          => /\ Len(trigger.requests) = 1
             /\ trigger.result = IF trigger.reply = "placed"
                                 THEN GttId(trigger.payload.symbol_key)
                                 ELSE "None"

====
